---- MODULE Spec2Model ----
(***************************************************************************)
(* Model of lerobot/scripts/eval.py: the batched simulation rollout        *)
(* (rollout), the metrics aggregation and video writing (eval_policy) and  *)
(* the episode compiler (_compile_episode_data); and of the control loop   *)
(* of lerobot/scripts/eval_real.py (rollout on the robot); of the command  *)
(* line of eval.py (get_pretrained_policy_path, main); and of the input    *)
(* validation of DiffusionConfig (configuration_diffusion.py).             *)
(*                                                                         *)
(* Arrays are sequences. Positions in a sequence are 1-based (TLA+), the   *)
(* values the code stores (done_indices, frame_index, episode_index,       *)
(* index, batch_ix) keep the code's 0-based numbering.                     *)
(***************************************************************************)
EXTENDS FiniteSets, Integers, Sequences, TLC

\* ---------------------------------------------------------------- bounds
MaxEpisodes == 3        \* n_episodes ranges over 1..MaxEpisodes
MaxNumEnvs == 2         \* env.num_envs ranges over 1..MaxNumEnvs
MaxEpisodeSteps == 3    \* the environments' time limit (_max_episode_steps)
MaxStartSeed == 26      \* start_seed ranges over None, 0..MaxStartSeed
MaxEntropy == 2         \* an unseeded environment draws from 0..MaxEntropy
MaxRendered == 2        \* max_episodes_rendered ranges over 0..MaxRendered
MaxSteps == 3           \* max_steps ranges over None, 1..MaxSteps
MaxWarmupS == 3         \* warmup_s is 0 or MaxWarmupS clock ticks
Period == 2             \* the control period 1 / fps, in clock ticks
MaxLateCycles == 1      \* at most so many cycles of a run are over time
MaxRelative == 2        \* relative_actions_max is None or MaxRelative
RobotLimit == 90        \* the robot realizes targets within +-RobotLimit
MaxImageSize == 2       \* image heights and widths range over 1..MaxImageSize

\* ------------------------------------------------------- program constants
Fps == 10               \* env.unwrapped.metadata["render_fps"]
NActionSteps == 8       \* n_action_steps of the policy configuration
MainEpisodesRendered == 10  \* main: eval_policy(max_episodes_rendered=10)
Goal == 87              \* the goal position of the (first) joint
Tolerance == 3          \* success: no joint further than this from the goal

\* ---------------------------------------------------------------- helpers
\* Python's None and a present value.
None == <<>>
Some(x) == <<x>>

Min(a, b) == IF a <= b THEN a ELSE b

\* s[:k] of Python: the first k items, all of s when k exceeds its length.
Take(s, k) == SubSeq(s, 1, Min(k, Len(s)))

\* numpy.all over a boolean vector indexed by 1..n.
All(v) == \A b \in DOMAIN v : v[b]

RECURSIVE SeqSum(_)
SeqSum(s) == IF s = <<>> THEN 0 ELSE s[1] + SeqSum(Tail(s))

RECURSIVE SeqMax(_)
\* max-reduction over a non-empty sequence
SeqMax(s) == IF Len(s) = 1 THEN s[1]
             ELSE LET m == SeqMax(Tail(s)) IN IF s[1] >= m THEN s[1] ELSE m

\* any-reduction over a sequence of booleans
SeqAny(s) == \E t \in 1..Len(s) : s[t]

\* number of True in a sequence of booleans
RECURSIVE CountTrue(_)
CountTrue(s) == IF s = <<>> THEN 0
                ELSE (IF s[1] THEN 1 ELSE 0) + CountTrue(Tail(s))

\* [x] * n of Python
Repeat(x, n) == [i \in 1..n |-> x]

\* numpy.arange(a, b, 1)
Arange(a, b) == [i \in 1..(IF b > a THEN b - a ELSE 0) |-> a + i - 1]

\* range(a, b) as a list
Range(a, b) == Arange(a, b)

\* concatenation of a sequence of sequences (numpy.concatenate)
RECURSIVE Concatenate(_)
Concatenate(ss) == IF ss = <<>> THEN <<>> ELSE ss[1] \o Concatenate(Tail(ss))

\* a vector indexed by 1..n as a sequence
Elems(n) == 1..n

VARIABLES
  \* ---- arguments of eval_policy
  n_episodes, num_envs, start_seed, return_episode_data,
  max_episodes_rendered,
  \* ---- locals of eval_policy
  pc, n_batches, batch_ix, sum_rewards, max_rewards, eval_successes,
  all_seeds, rollout_data, done_indices, this_episode_data, episode_data,
  info, ep_frames, n_episodes_rendered, threads, video_paths, n_joined,
  \* ---- locals of rollout
  observation, done, all_observations, all_actions, all_rewards,
  all_successes, all_dones, step,
  \* ---- the collaborators: vector environment and policy
  env_seed, env_tape, env_steps, env_elapsed, policy_queue,
  \* ---- history of the run (not program state)
  n_rollouts, produced, boundaries, rollouts, run, calls

eval_vars == <<n_episodes, num_envs, start_seed, return_episode_data,
               n_batches, batch_ix, sum_rewards, max_rewards, eval_successes,
               all_seeds, rollout_data, done_indices, this_episode_data,
               episode_data, info>>
rollout_vars == <<observation, done, all_observations, all_actions,
                  all_rewards, all_successes, all_dones, step>>
collab_vars == <<env_seed, env_tape, env_steps, env_elapsed, policy_queue>>
video_vars == <<max_episodes_rendered, ep_frames, n_episodes_rendered,
                threads, video_paths, n_joined>>
hist_vars == <<n_rollouts, produced, boundaries, rollouts, run, calls>>
sim_vars == <<pc, eval_vars, video_vars, rollout_vars, collab_vars, hist_vars>>

VARIABLES
  \* ---- arguments of the hardware rollout (eval_real.py)
  warmup_s, relative_actions_max, max_steps, visualize,
  \* ---- locals of the hardware rollout
  rpc, hw_step, episodes_data, next_action, first_follower_pos,
  \* ---- its collaborators: clock, robot, policy wrapper, digital twin
  now, robot_pos, n_requests, wrapper_closed, twin_closed,
  \* ---- history of the hardware rollout (not program state)
  n_late, log

real_vars == <<warmup_s, relative_actions_max, max_steps, visualize, rpc,
               hw_step, episodes_data, next_action, first_follower_pos, now,
               robot_pos, n_requests, wrapper_closed, twin_closed, n_late,
               log>>

VARIABLES
  \* ---- the command line of eval.py and what it runs in
  args, hub, fs, hydra_cfg,
  \* ---- the script and main: position, locals, effects
  main_pc, pretrained_policy_path, created, saved, env_closed,
  \* ---- a DiffusionConfig being constructed
  config, constructed

main_vars == <<args, hub, fs, hydra_cfg, main_pc, pretrained_policy_path,
               created, saved, env_closed>>
config_vars == <<config, constructed>>
cli_vars == <<main_vars, config_vars>>

vars == <<sim_vars, real_vars, cli_vars>>

\* defaultdict(list) before anything is appended: every key is an empty list.
\* The keys are those the hardware rollout appends to.
EmptyEpisodes ==
  [index |-> <<>>, episode_index |-> <<>>, timestamp |-> <<>>,
   frame_index |-> <<>>, observation_state |-> <<>>, action |-> <<>>,
   next_reward |-> <<>>, next_success |-> <<>>, next_done |-> <<>>]

\* The hardware rollout is not running.
RealIdle ==
  /\ warmup_s = 0
  /\ relative_actions_max = <<>>
  /\ max_steps = <<>>
  /\ visualize = FALSE
  /\ rpc = "idle"
  /\ hw_step = 0
  /\ episodes_data = EmptyEpisodes
  /\ next_action = <<>>
  /\ first_follower_pos = <<>>
  /\ now = 0
  /\ robot_pos = 0
  /\ n_requests = 0
  /\ wrapper_closed = FALSE
  /\ twin_closed = FALSE
  /\ n_late = 0
  /\ log = <<>>

\* Strings whose prefix matters are sequences of characters.
StartsWith(s, prefix) ==
  Len(s) >= Len(prefix) /\ SubSeq(s, 1, Len(prefix)) = prefix

Resnet == <<"r", "e", "s", "n", "e", "t">>
ObservationImage ==
  <<"o", "b", "s", "e", "r", "v", "a", "t", "i", "o", "n", ".",
    "i", "m", "a", "g", "e">>
ObservationImagesTop == ObservationImage \o <<"s", ".", "t", "o", "p">>
ObservationState ==
  <<"o", "b", "s", "e", "r", "v", "a", "t", "i", "o", "n", ".",
    "s", "t", "a", "t", "e">>

\* The script eval.py is not running.
MainIdle ==
  /\ args = [pretrained_policy_name_or_path |-> None, config |-> None]
  /\ hub = "snapshot"
  /\ fs = [snapshot |-> "dir", local |-> "missing"]
  /\ hydra_cfg = [batch_size |-> 1, n_episodes |-> 1, seed |-> 0]
  /\ main_pc = "idle"
  /\ pretrained_policy_path = None
  /\ created = <<>>
  /\ saved = None
  /\ env_closed = FALSE

\* No DiffusionConfig is being constructed.
ConfigIdle ==
  /\ config = [vision_backbone |-> Resnet \o <<"1", "8">>,
               crop_shape |-> None,
               input_shapes |-> (ObservationState :> <<2>>),
               noise_scheduler_type |-> "DDPM",
               prediction_type |-> "epsilon"]
  /\ constructed = "idle"

\* ------------------------------------------------------------ collaborators
\* Policy.reset(): clears the buffered actions.
PolicyReset == <<>>

\* The k-th action (k = 0, 1, ...) of the sequence predicted from
\* observation o of one batch element.
PredictedAction(o, k) == o * 10 + k

\* Policy.select_action(observation): when the buffer is empty, predict
\* NActionSteps batched actions from the observation; pop the first one.
\* Returns the action and the buffer left.
SelectAction(queue, obs) ==
  LET filled == IF queue = <<>>
                THEN [k \in 1..NActionSteps |->
                        [b \in DOMAIN obs |-> PredictedAction(obs[b], k - 1)]]
                ELSE queue
  IN [action |-> Head(filled), queue |-> Tail(filled)]

\* A gym environment is deterministic once seeded: its random generator is a
\* tape fixed by the seed. The tape is read as a number in base 3, one digit
\* per step since env.reset(seed): 0 the episode goes on, 1 it terminates
\* without success, 2 it terminates with success. All higher digits are 0.
TapeOutcome(tape, k) == (tape \div (3 ^ (k - 1))) % 3
EnvTerminated(tape, k) == TapeOutcome(tape, k) # 0
EnvIsSuccess(tape, k) == TapeOutcome(tape, k) = 2

\* The time limit wrapper: the episode is truncated when it has run for
\* _max_episode_steps steps.
EnvTruncated(elapsed) == elapsed >= MaxEpisodeSteps

\* Reward of one environment step: a step penalty, a bonus on success and a
\* larger penalty when the episode ends without success.
EnvReward(finished, success) ==
  IF success THEN 2 ELSE IF finished THEN -2 ELSE -1

\* The observation of an environment that has made `steps` steps since
\* env.reset, `elapsed` of them in its current episode.
EnvObservation(steps, elapsed) == steps * 10 + elapsed

\* env.envs[i].render(): the picture of an environment shows its current
\* state.
EnvRender(steps, elapsed) == EnvObservation(steps, elapsed)

\* ------------------------------------------------------------------ rollout
NBatchesBad(n, e) == n \div e
\* eval.py:238
NBatches(n, e) == (n \div e) + (IF (n % e) # 0 THEN 1 ELSE 0)

BatchSeedsBad(ss, ix, e) ==
  IF ss = None THEN None
  ELSE Some(Range(ss[1] + ix, ss[1] + ix + e))
\* eval.py:274-279, 283: the seeds handed to rollout for batch batch_ix
BatchSeeds(ss, ix, e) ==
  IF ss = None THEN None
  ELSE Some(Range(ss[1] + ix * e, ss[1] + (ix + 1) * e))

\* `seeds if seeds else None`: an empty range is falsy
SeedsArg(seeds) == IF seeds # None /\ Len(seeds[1]) > 0 THEN seeds ELSE None

DoneUpdateBad(terminated, truncated, d) ==
  [b \in DOMAIN d |-> terminated[b] \/ truncated[b]]
\* eval.py:173
DoneUpdate(terminated, truncated, d) ==
  [b \in DOMAIN d |-> terminated[b] \/ truncated[b] \/ d[b]]

\* eval.py:229-264: the state of eval_policy before the first batch, for the
\* arguments n_episodes, env (num_envs), start_seed, return_episode_data and
\* max_episodes_rendered (EvalInit draws the last three from the given sets).
EvalStart(position) ==
  /\ pc = position
  /\ n_batches = NBatches(n_episodes, num_envs)
  /\ batch_ix = 0
  /\ sum_rewards = <<>>
  /\ max_rewards = <<>>
  /\ eval_successes = <<>>
  /\ all_seeds = <<>>
  /\ rollout_data = None
  /\ done_indices = None
  /\ this_episode_data = None
  /\ episode_data = None
  /\ info = None
  /\ ep_frames = <<>>
  /\ n_episodes_rendered = 0
  /\ threads = <<>>
  /\ video_paths = <<>>
  /\ n_joined = 0
  /\ observation = None
  /\ done = None
  /\ all_observations = <<>>
  /\ all_actions = <<>>
  /\ all_rewards = <<>>
  /\ all_successes = <<>>
  /\ all_dones = <<>>
  /\ step = 0
  /\ env_seed = None
  /\ env_tape = None
  /\ env_steps = None
  /\ env_elapsed = None
  /\ policy_queue = <<>>
  /\ n_rollouts = 0
  /\ produced = <<>>
  /\ boundaries = <<>>
  /\ rollouts = <<>>
  /\ run = 1
  /\ calls = <<>>

EvalInit(start_seeds, return_flags, rendered) ==
  /\ n_episodes \in 1..MaxEpisodes
  /\ num_envs \in 1..MaxNumEnvs
  /\ start_seed \in start_seeds
  /\ return_episode_data \in return_flags
  /\ max_episodes_rendered \in rendered
  /\ EvalStart("batch")
  /\ RealIdle
  /\ MainIdle
  /\ ConfigIdle

\* eval_policy is not running.
SimIdle ==
  /\ n_episodes = 1
  /\ num_envs = 1
  /\ start_seed = None
  /\ return_episode_data = FALSE
  /\ max_episodes_rendered = 0
  /\ EvalStart("idle")

\* The seeds an evaluation can be given.
GivenSeeds == {Some(s) : s \in 0..MaxStartSeed}

\* Evaluation without videos (max_episodes_rendered = 0, the default), with
\* or without start_seed, with or without episode data.
Init == EvalInit({None} \cup GivenSeeds, BOOLEAN, {0})

\* Evaluation with videos, of seeded environments, without episode data.
InitVideo == EvalInit(GivenSeeds, {FALSE}, 0..MaxRendered)

\* Seeded evaluation without videos and without episode data.
InitTwice == EvalInit(GivenSeeds, {FALSE}, {0})

\* eval.py:249-258: the render callback appends one stacked picture of the
\* first n_to_render_now environments, nothing once enough episodes have been
\* rendered. `pictures` holds the picture of every environment.
RenderFrame(frames, rendered, max_rendered, pictures) ==
  IF rendered >= max_rendered THEN frames
  ELSE Append(frames,
              Take(pictures, Min(max_rendered - rendered, Len(pictures))))

\* eval.py:126-127, 162-163: rollout calls the callback when it is given one
RenderCallback(frames, rendered, max_rendered, pictures) ==
  IF max_rendered > 0
  THEN RenderFrame(frames, rendered, max_rendered, pictures)
  ELSE frames

\* eval.py:123: rollout resets the policy
ResetPolicyBad(queue) == queue
ResetPolicyPartial(queue) == IF queue = <<>> THEN <<>> ELSE Tail(queue)
ResetPolicy(queue) == PolicyReset

\* eval.py:268-286 and 119-144: the head of one iteration of the batch loop
\* calls rollout, which resets the policy and the environments. A seeded
\* environment takes the tape of its seed, an unseeded one draws it.
RolloutBegin ==
  /\ pc = "batch"
  /\ batch_ix < n_batches
  /\ \E entropy \in [Elems(num_envs) -> 0..MaxEntropy] :
       LET seeds == SeedsArg(BatchSeeds(start_seed, batch_ix, num_envs))
       IN /\ env_seed' = [b \in Elems(num_envs) |->
                            IF seeds = None THEN None ELSE Some(seeds[1][b])]
          /\ env_tape' = [b \in Elems(num_envs) |->
                            IF seeds = None THEN entropy[b] ELSE seeds[1][b]]
  /\ policy_queue' = ResetPolicy(policy_queue)
  /\ env_steps' = [b \in Elems(num_envs) |-> 0]
  /\ env_elapsed' = [b \in Elems(num_envs) |-> 0]
  /\ observation' = [b \in Elems(num_envs) |-> EnvObservation(0, 0)]
  /\ all_observations' = <<>>
  /\ all_actions' = <<>>
  /\ all_rewards' = <<>>
  /\ all_successes' = <<>>
  /\ all_dones' = <<>>
  /\ step' = 0
  /\ done' = [b \in Elems(num_envs) |-> FALSE]
  /\ ep_frames' = RenderCallback(<<>>, n_episodes_rendered,
                                 max_episodes_rendered,
                                 [b \in Elems(num_envs) |-> EnvRender(0, 0)])
  /\ n_rollouts' = n_rollouts + 1
  /\ calls' = <<"policy.reset", "env.reset">>
  /\ pc' = "loop"
  /\ UNCHANGED <<eval_vars, produced, boundaries, rollouts, run>>
  /\ UNCHANGED <<max_episodes_rendered, n_episodes_rendered, threads,
                 video_paths, n_joined>>
  /\ UNCHANGED <<real_vars, cli_vars>>

LoopConditionBad(d) == \A b \in DOMAIN d : ~ d[b]
\* eval.py:145: while not np.all(done)
LoopCondition(d) == ~ All(d)

\* eval.py:145-183: one iteration of the rollout loop: remember the
\* observation, select the action, step the environments, update the
\* cumulative done and append to the histories. An element that finished is
\* reset by the vector environment and goes on stepping.
RolloutStep ==
  /\ pc = "loop"
  /\ LoopCondition(done)
  /\ LET sel == SelectAction(policy_queue, observation)
         action == sel.action
         terminated == [b \in Elems(num_envs) |->
                          EnvTerminated(env_tape[b], env_steps[b] + 1)]
         truncated == [b \in Elems(num_envs) |->
                         EnvTruncated(env_elapsed[b] + 1)]
         finished == [b \in Elems(num_envs) |->
                        terminated[b] \/ truncated[b]]
         is_success == [b \in Elems(num_envs) |->
                          EnvIsSuccess(env_tape[b], env_steps[b] + 1)]
         reward == [b \in Elems(num_envs) |->
                      EnvReward(finished[b], is_success[b])]
         \* info["final_info"] exists when some element finished, and its
         \* entry is None for the elements that did not
         has_final_info == \E b \in Elems(num_envs) : finished[b]
         successes == [b \in Elems(num_envs) |->
                         IF has_final_info
                         THEN (IF finished[b] THEN is_success[b] ELSE FALSE)
                         ELSE FALSE]
     IN /\ all_observations' = IF return_episode_data
                               THEN Append(all_observations, observation)
                               ELSE all_observations
        /\ policy_queue' = sel.queue
        /\ env_steps' = [b \in Elems(num_envs) |-> env_steps[b] + 1]
        /\ env_elapsed' = [b \in Elems(num_envs) |->
                             IF finished[b] THEN 0 ELSE env_elapsed[b] + 1]
        /\ observation' = [b \in Elems(num_envs) |->
                             EnvObservation(env_steps'[b], env_elapsed'[b])]
        /\ done' = DoneUpdate(terminated, truncated, done)
        /\ all_actions' = Append(all_actions, action)
        /\ all_rewards' = Append(all_rewards, reward)
        /\ all_dones' = Append(all_dones, done')
        /\ all_successes' = Append(all_successes, successes)
        /\ ep_frames' =
             RenderCallback(ep_frames, n_episodes_rendered,
                            max_episodes_rendered,
                            [b \in Elems(num_envs) |->
                               EnvRender(env_steps'[b], env_elapsed'[b])])
  /\ step' = step + 1
  /\ calls' = calls \o <<"policy.select_action", "env.step">>
  /\ UNCHANGED <<pc, eval_vars, env_seed, env_tape>>
  /\ UNCHANGED <<n_rollouts, produced, boundaries, rollouts, run>>
  /\ UNCHANGED <<max_episodes_rendered, n_episodes_rendered, threads,
                 video_paths, n_joined>>
  /\ UNCHANGED <<real_vars, cli_vars>>

\* numpy.stack(list, axis=1): from a list over time of vectors over the batch
\* to a (batch, sequence) array.
Stack(list, n) ==
  [b \in Elems(n) |-> [t \in 1..Len(list) |-> list[t][b]]]

FinalObservationsBad(all_obs, obs, return_observations) == all_obs
\* eval.py:186-187: track the final observation
FinalObservations(all_obs, obs, return_observations) ==
  IF return_observations THEN Append(all_obs, obs) ELSE all_obs

\* eval.py:185-203: the loop is over; track the final observation and stack.
RolloutReturn ==
  /\ pc = "loop"
  /\ ~ LoopCondition(done)
  /\ LET final_observations ==
           FinalObservations(all_observations, observation,
                             return_episode_data)
     IN /\ all_observations' = final_observations
        /\ rollout_data' =
             Some([action |-> Stack(all_actions, num_envs),
                   reward |-> Stack(all_rewards, num_envs),
                   success |-> Stack(all_successes, num_envs),
                   done |-> Stack(all_dones, num_envs),
                   observation |->
                     IF return_episode_data
                     THEN Some(Stack(final_observations, num_envs))
                     ELSE None])
        /\ rollouts' = Append(rollouts,
                              [seeds |-> env_seed,
                               action |-> Stack(all_actions, num_envs),
                               reward |-> Stack(all_rewards, num_envs),
                               success |-> Stack(all_successes, num_envs),
                               done |-> Stack(all_dones, num_envs)])
  /\ pc' = "metrics"
  /\ UNCHANGED <<n_episodes, num_envs, start_seed, return_episode_data,
                 n_batches, batch_ix, sum_rewards, max_rewards,
                 eval_successes, all_seeds, done_indices, this_episode_data,
                 episode_data, info>>
  /\ UNCHANGED <<observation, done, all_actions, all_rewards, all_successes,
                 all_dones, step>>
  /\ UNCHANGED <<collab_vars, video_vars, n_rollouts, produced, boundaries,
                 run, calls>>
  /\ UNCHANGED <<real_vars, cli_vars>>

\* ------------------------------------------------------------ eval_policy
\* numpy.argmax over a boolean sequence: the 0-based position of the first
\* True, 0 when there is none.
ArgMax(s) ==
  IF \E t \in 1..Len(s) : s[t]
  THEN (CHOOSE t \in 1..Len(s) : s[t] /\ \A u \in 1..(t - 1) : ~ s[u]) - 1
  ELSE 0

\* eval.py:296: mask[t] for the 0-based step t of an element whose first
\* done index is done_index
Mask(n_steps, done_index) ==
  [t \in 1..n_steps |-> (t - 1) <= done_index + 1]

\* reward * mask
MaskedRewards(rewards, mask) ==
  [t \in 1..Len(rewards) |-> IF mask[t] THEN rewards[t] ELSE 0]

\* success * mask
MaskedSuccesses(successes, mask) ==
  [t \in 1..Len(successes) |-> successes[t] /\ mask[t]]

\* ----------------------------------------------------- _compile_episode_data
\* k / fps and t + 1 / fps: time stamps are fractions <<numerator, denominator>>
Div(k, fps) == <<k, fps>>
FracAdd(x, y) ==
  IF x[2] = y[2] THEN <<x[1] + y[1], x[2]>>
  ELSE <<x[1] * y[2] + y[1] * x[2], x[2] * y[2]>>

CopyPadBad(x) == x \o SubSeq(x, 1, 1)
\* numpy.concatenate([x, x[-1:]])
CopyPad(x) == x \o SubSeq(x, Len(x), Len(x))

NumFramesBad(done_index) == done_index + 3
\* eval.py:410: + 2 to include the first done frame and the last observation
NumFrames(done_index) == done_index + 2

\* eval.py:408-441: the dictionary of one episode (b is the 1-based batch
\* element, the code's ep_ix is b - 1)
EpDict(rd, dis, b, start_episode_index, fps) ==
  LET num_frames == NumFrames(dis[b])
      frame_index == Arange(0, num_frames - 1)
      timestamp == [i \in 1..Len(frame_index) |-> Div(frame_index[i], fps)]
  IN [action |-> CopyPad(Take(rd.action[b], num_frames - 1)),
      episode_index |->
        CopyPad(Repeat(start_episode_index + (b - 1), num_frames - 1)),
      frame_index |->
        Append(frame_index, frame_index[Len(frame_index)] + 1),
      timestamp |->
        Append(timestamp, FracAdd(timestamp[Len(timestamp)], Div(1, fps))),
      next_done |-> CopyPad(Take(rd.done[b], num_frames - 1)),
      next_success |-> CopyPad(Take(rd.success[b], num_frames - 1)),
      next_reward |-> CopyPad(Take(rd.reward[b], num_frames - 1)),
      observation |-> Take(rd.observation[1][b], num_frames)]

\* eval.py:397-449
CompileEpisodeData(rd, dis, start_episode_index, start_data_index, fps) ==
  LET n == Len(rd.action)
      ep_dicts == [b \in 1..n |-> EpDict(rd, dis, b, start_episode_index, fps)]
      total_frames == SeqSum([b \in 1..n |-> NumFrames(dis[b])])
      Cat(F(_)) == Concatenate([b \in 1..n |-> F(ep_dicts[b])])
      fAction(d) == d.action
      fEpisodeIndex(d) == d.episode_index
      fFrameIndex(d) == d.frame_index
      fTimestamp(d) == d.timestamp
      fNextDone(d) == d.next_done
      fNextSuccess(d) == d.next_success
      fNextReward(d) == d.next_reward
      fObservation(d) == d.observation
  IN [action |-> Cat(fAction),
      episode_index |-> Cat(fEpisodeIndex),
      frame_index |-> Cat(fFrameIndex),
      timestamp |-> Cat(fTimestamp),
      next_done |-> Cat(fNextDone),
      next_success |-> Cat(fNextSuccess),
      next_reward |-> Cat(fNextReward),
      observation |-> Cat(fObservation),
      index |-> Arange(start_data_index, start_data_index + total_frames),
      \* every value is built by np.concatenate or np.arange
      array_type |-> "numpy.ndarray"]

\* eval.py:325: torch.cat takes a sequence of torch.Tensor and raises
\* TypeError for anything else.
TorchCatAccepts(x, y) ==
  /\ x.array_type = "torch.Tensor"
  /\ y.array_type = "torch.Tensor"

\* eval.py:325: concatenation of the compiled data, key by key
CatEpisodeData(x, y) ==
  [action |-> x.action \o y.action,
   episode_index |-> x.episode_index \o y.episode_index,
   frame_index |-> x.frame_index \o y.frame_index,
   timestamp |-> x.timestamp \o y.timestamp,
   next_done |-> x.next_done \o y.next_done,
   next_success |-> x.next_success \o y.next_success,
   next_reward |-> x.next_reward \o y.next_reward,
   observation |-> x.observation \o y.observation,
   index |-> x.index \o y.index,
   array_type |-> "torch.Tensor"]

\* eval.py:314
StartEpisodeIndex(ix, e) == ix * e

\* eval.py:315
StartDataIndex(ed) ==
  IF ed = None THEN 0 ELSE ed[1].index[Len(ed[1].index)] + 1

\* eval.py:322-323: the two sanity checks before the concatenation
ContinuityAsserts(ed, this) ==
  /\ ed.episode_index[Len(ed.episode_index)] + 1 = this.episode_index[1]
  /\ ed.index[Len(ed.index)] + 1 = this.index[1]

VideoPathBad(k) == 0
\* eval.py:336: the path eval_episode_{k}.mp4 is represented by k
VideoPath(k) == k

\* eval.py:343: stacked_frames[: done_index + 1]
FramesSlice(frames, done_index) == Take(frames, done_index + 1)

\* eval.py:330-335: the zip is as long as the shorter of the stacked frames
\* and the done indices, and the loop breaks once enough are rendered
StartedCount(n_frames_batch, n_done, rendered, max_rendered) ==
  Min(Min(n_frames_batch, n_done),
      IF max_rendered > rendered THEN max_rendered - rendered ELSE 0)

\* eval.py:328-349: the writer threads started for one batch, in order. A
\* thread is the record of its arguments and of its state; batch and element
\* remember the episode it was started for.
StartedThreads(frames, dis, rendered, max_rendered, ix, fps) ==
  IF max_rendered > 0 /\ Len(frames) > 0
  THEN LET batch_stacked_frames == Stack(frames, Len(frames[1]))
           n == StartedCount(Len(batch_stacked_frames), Len(dis), rendered,
                             max_rendered)
       IN [i \in 1..n |->
             [path |-> VideoPath(rendered + i - 1),
              frames |-> FramesSlice(batch_stacked_frames[i], dis[i]),
              fps |-> fps,
              status |-> "running",
              batch |-> ix,
              element |-> i]]
  ELSE <<>>

\* eval.py:288-353: the rest of one iteration of the batch loop, after rollout
\* has returned: first-done indices, masked metrics, seeds, episode data.
BatchMetrics ==
  /\ pc = "metrics"
  /\ LET rd == rollout_data[1]
         n_steps == Len(rd.done[1])
         dis == [b \in Elems(num_envs) |-> ArgMax(rd.done[b])]
         mask == [b \in Elems(num_envs) |-> Mask(n_steps, dis[b])]
         batch_sum_rewards ==
           [b \in Elems(num_envs) |->
              SeqSum(MaskedRewards(rd.reward[b], mask[b]))]
         batch_max_rewards ==
           [b \in Elems(num_envs) |->
              SeqMax(MaskedRewards(rd.reward[b], mask[b]))]
         batch_successes ==
           [b \in Elems(num_envs) |->
              SeqAny(MaskedSuccesses(rd.success[b], mask[b]))]
         seeds == BatchSeeds(start_seed, batch_ix, num_envs)
         this == CompileEpisodeData(rd, dis,
                   StartEpisodeIndex(batch_ix, num_envs),
                   StartDataIndex(episode_data), Fps)
         \* the concatenation of the episode data raises
         raises == /\ return_episode_data
                   /\ episode_data # None
                   /\ \/ ~ ContinuityAsserts(episode_data[1], this)
                      \/ ~ TorchCatAccepts(episode_data[1], this)
         started == IF raises THEN <<>>
                    ELSE StartedThreads(ep_frames, dis, n_episodes_rendered,
                                        max_episodes_rendered, batch_ix, Fps)
     IN /\ done_indices' = dis
        /\ threads' = threads \o started
        /\ video_paths' = video_paths \o
                            [i \in 1..Len(started) |-> started[i].path]
        /\ n_episodes_rendered' = n_episodes_rendered + Len(started)
        /\ sum_rewards' = sum_rewards \o batch_sum_rewards
        /\ max_rewards' = max_rewards \o batch_max_rewards
        /\ eval_successes' = eval_successes \o batch_successes
        /\ all_seeds' = IF SeedsArg(seeds) # None
                        THEN all_seeds \o [i \in 1..Len(seeds[1]) |->
                                             Some(seeds[1][i])]
                        ELSE Append(all_seeds, None)
        /\ produced' = produced \o
             [b \in Elems(num_envs) |->
                [batch |-> batch_ix, element |-> b,
                 sum_reward |-> batch_sum_rewards[b],
                 max_reward |-> batch_max_rewards[b],
                 success |-> batch_successes[b]]]
        /\ IF ~ return_episode_data
           THEN /\ pc' = "batch"
                /\ batch_ix' = batch_ix + 1
                /\ UNCHANGED <<this_episode_data, episode_data, boundaries>>
           ELSE /\ this_episode_data' = Some(this)
                /\ IF episode_data = None
                   THEN /\ episode_data' = Some(this)
                        /\ pc' = "batch"
                        /\ batch_ix' = batch_ix + 1
                        /\ UNCHANGED boundaries
                   ELSE IF ~ ContinuityAsserts(episode_data[1], this)
                   THEN /\ pc' = "AssertionError"
                        /\ UNCHANGED <<episode_data, boundaries, batch_ix>>
                   ELSE IF ~ TorchCatAccepts(episode_data[1], this)
                   THEN /\ pc' = "TypeError"
                        /\ UNCHANGED <<episode_data, boundaries, batch_ix>>
                   ELSE /\ episode_data' =
                             Some(CatEpisodeData(episode_data[1], this))
                        /\ boundaries' =
                             Append(boundaries, Len(episode_data[1].index))
                        /\ pc' = "batch"
                        /\ batch_ix' = batch_ix + 1
  /\ UNCHANGED <<n_episodes, num_envs, start_seed, return_episode_data,
                 n_batches, rollout_data, info>>
  /\ UNCHANGED <<max_episodes_rendered, ep_frames, n_joined>>
  /\ UNCHANGED <<rollout_vars, collab_vars, n_rollouts, rollouts, run,
                 calls>>
  /\ UNCHANGED <<real_vars, cli_vars>>

\* eval.py:369-377: zip(..., strict=True) over the four sliced lists
ZipStrictOk(a, b, c, d) ==
  /\ Len(a) = Len(b)
  /\ Len(a) = Len(c)
  /\ Len(a) = Len(d)

\* numpy.nanmean of a list, as the fraction <<sum, count>>
Mean(s) == <<SeqSum(s), Len(s)>>

CompileInfoBad(n, sums, maxs, succs, seeds) ==
  [per_episode |->
     [i \in 1..Len(sums) |->
        [episode_ix |-> i - 1,
         sum_reward |-> sums[i],
         max_reward |-> maxs[i],
         success |-> succs[i],
         seed |-> IF i <= Len(seeds) THEN seeds[i] ELSE None]],
   aggregated |->
     [avg_sum_reward |-> Mean(sums),
      avg_max_reward |-> Mean(maxs),
      pc_success |-> <<100 * CountTrue(succs), Len(succs)>>]]
\* eval.py:360-386
CompileInfo(n, sums, maxs, succs, seeds) ==
  [per_episode |->
     [i \in 1..Len(Take(sums, n)) |->
        [episode_ix |-> i - 1,
         sum_reward |-> Take(sums, n)[i],
         max_reward |-> Take(maxs, n)[i],
         success |-> Take(succs, n)[i],
         seed |-> Take(seeds, n)[i]]],
   aggregated |->
     [avg_sum_reward |-> Mean(Take(sums, n)),
      avg_max_reward |-> Mean(Take(maxs, n)),
      pc_success |-> <<100 * CountTrue(Take(succs, n)), Len(Take(succs, n))>>]]

\* The target of a writer thread, write_video, runs to its end at its own
\* pace once the thread is started.
WriteVideo(k) ==
  /\ k <= Len(threads)
  /\ threads[k].status = "running"
  /\ threads' = [threads EXCEPT ![k].status = "finished"]
  /\ UNCHANGED <<pc, eval_vars, rollout_vars, collab_vars, hist_vars>>
  /\ UNCHANGED <<max_episodes_rendered, ep_frames, n_episodes_rendered,
                 video_paths, n_joined>>
  /\ UNCHANGED <<real_vars, cli_vars>>

\* eval.py:355-356: the joining loop comes after the batch loop
JoinReady(ix, n) == ix = n

\* eval.py:356-357: thread.join() returns once the thread has finished; the
\* threads are joined in the order they were started.
JoinThread ==
  /\ pc = "batch"
  /\ JoinReady(batch_ix, n_batches)
  /\ n_joined < Len(threads)
  /\ threads[n_joined + 1].status = "finished"
  /\ n_joined' = n_joined + 1
  /\ UNCHANGED <<pc, eval_vars, rollout_vars, collab_vars, hist_vars>>
  /\ UNCHANGED <<max_episodes_rendered, ep_frames, n_episodes_rendered,
                 threads, video_paths>>
  /\ UNCHANGED <<real_vars, cli_vars>>

AllJoinedBad(n, ts) == TRUE
\* eval.py:356-357: the loop over threads has joined every one of them
AllJoined(n, ts) == n = Len(ts)

\* eval.py:355-394: all batches are done; compile the eval info and return.
Finish ==
  /\ pc = "batch"
  /\ batch_ix = n_batches
  /\ AllJoined(n_joined, threads)
  /\ IF ZipStrictOk(Take(sum_rewards, n_episodes),
                    Take(max_rewards, n_episodes),
                    Take(eval_successes, n_episodes),
                    Take(all_seeds, n_episodes))
     THEN /\ info' = Some(CompileInfo(n_episodes, sum_rewards, max_rewards,
                                      eval_successes, all_seeds))
          /\ pc' = "returned"
     ELSE /\ pc' = "ValueError"
          /\ UNCHANGED info
  /\ UNCHANGED <<n_episodes, num_envs, start_seed, return_episode_data,
                 n_batches, batch_ix, sum_rewards, max_rewards,
                 eval_successes, all_seeds, rollout_data, done_indices,
                 this_episode_data, episode_data>>
  /\ UNCHANGED <<rollout_vars, collab_vars, hist_vars, video_vars>>
  /\ UNCHANGED <<real_vars, cli_vars>>

\* The caller evaluates again, with the same arguments, the same policy
\* object and the same vector environment: the locals of eval_policy start
\* afresh, the policy and the environments are as the first call left them.
CallAgain ==
  /\ pc = "returned"
  /\ run = 1
  /\ run' = 2
  /\ pc' = "batch"
  /\ batch_ix' = 0
  /\ sum_rewards' = <<>>
  /\ max_rewards' = <<>>
  /\ eval_successes' = <<>>
  /\ all_seeds' = <<>>
  /\ rollout_data' = None
  /\ done_indices' = None
  /\ this_episode_data' = None
  /\ episode_data' = None
  /\ info' = None
  /\ ep_frames' = <<>>
  /\ n_episodes_rendered' = 0
  /\ threads' = <<>>
  /\ video_paths' = <<>>
  /\ n_joined' = 0
  /\ n_rollouts' = 0
  /\ produced' = <<>>
  /\ boundaries' = <<>>
  /\ UNCHANGED <<n_episodes, num_envs, start_seed, return_episode_data,
                 max_episodes_rendered, n_batches, rollouts, calls>>
  /\ UNCHANGED <<rollout_vars, collab_vars>>
  /\ UNCHANGED <<real_vars, cli_vars>>

Next ==
  \/ RolloutBegin
  \/ RolloutStep
  \/ RolloutReturn
  \/ BatchMetrics
  \/ Finish

Spec == Init /\ [][Next]_vars

\* The rollout loop is sequential code: an iteration that can be taken is
\* taken, and so is the return once the loop condition is false.
FairSpec == Spec /\ WF_vars(RolloutStep) /\ WF_vars(RolloutReturn)

\* Evaluation with video rendering: the writer threads run beside the main
\* loop.
NextVideo ==
  \/ Next
  \/ \E k \in 1..MaxRendered : WriteVideo(k)
  \/ JoinThread
VideoSpec == InitVideo /\ [][NextVideo]_vars

\* Two evaluations in a row on the same policy and environments.
NextTwice == Next \/ CallAgain
SpecTwice == InitTwice /\ [][NextTwice]_vars

\* ======================================================== eval_real.py
\* The hardware rollout: one robot, one policy behind a rollout wrapper that
\* runs inference in a worker thread, a wall clock. Positions and actions
\* are those of one joint. Time is counted in clock ticks.

Abs(x) == IF x >= 0 THEN x ELSE -x

\* torch.clamp(x, lo, hi)
Clamp(x, lo, hi) == IF x < lo THEN lo ELSE IF x > hi THEN hi ELSE x

\* ------------------------------------------------------------ collaborators
\* The i-th action of the sequence the policy wrapper computes on its n-th
\* request: a relative motion, of either sign, small or large.
ActionValue(n, i) == IF n % 2 = 0 THEN -(n + i) ELSE n + i

\* PolicyRolloutWrapper.provide_observation_get_actions, when it has a
\* sequence to return: `len` future actions.
PolicySequence(n, len) == [i \in 1..len |-> ActionValue(n, i)]

\* The lengths of the sequence the wrapper may return: a single action or a
\* whole prediction; 0 stands for no sequence (None), which a call without
\* timeout never returns.
SequenceShapes(timeout_given) ==
  IF timeout_given THEN {0, 1, NActionSteps} ELSE {1, NActionSteps}

\* robot.send_action(target): the robot moves to the target as far as its
\* limits allow and returns the action it realized.
RobotSend(target) == Clamp(target, -RobotLimit, RobotLimit)

\* digital_twin.fk_gripper_tip(state)[2, -1] < 0.004: the gripper tip is
\* about to touch the table.
TwinGripperLow(pos) == pos < 0

\* ------------------------------------------------------------------ rollout
IsWarmupBad(start_step_time, warmup) ==
  start_step_time <= warmup \/ start_step_time > warmup + Period
\* eval_real.py:73
IsWarmup(start_step_time, warmup) == start_step_time <= warmup

\* eval_real.py:102-107: the reward, as the fraction <<numerator, 10>>
RealReward(curr) ==
  <<-Abs(Goal - curr) - (IF TwinGripperLow(curr) THEN 10 ELSE 0), 10>>

\* eval_real.py:105
RealSuccess(curr) == Abs(Goal - curr) <= Tolerance

\* eval_real.py:76-111: what an ACTIVE cycle appends before inference
Recorded(ed, step_now, start_step_time, curr) ==
  LET base == [ed EXCEPT !.index = Append(@, step_now),
                         !.episode_index = Append(@, 0),
                         !.timestamp = Append(@, start_step_time),
                         !.frame_index = Append(@, step_now),
                         !.observation_state = Append(@, curr)]
  IN IF step_now > 0
     THEN [base EXCEPT !.next_reward = Append(@, RealReward(curr)),
                       !.next_success = Append(@, RealSuccess(curr)),
                       !.next_done = Append(@, RealSuccess(curr))]
     ELSE base

\* eval_real.py:150-154, 159: a deadline is given to the wrapper from the
\* second step on
TimeoutGiven(step_now) == step_now > 0

BufferedActionStall(step_now, action_sequence, next) ==
  IF step_now = 0 \/ action_sequence # None
  THEN [action |-> action_sequence[1][1],
        next_action |-> IF Len(action_sequence[1]) > 1
                        THEN action_sequence[1][2] ELSE action_sequence[1][1],
        is_dropped_cycle |-> Len(action_sequence[1]) <= 1]
  ELSE [action |-> 0, next_action |-> next[1], is_dropped_cycle |-> FALSE]
BufferedActionBad(step_now, action_sequence, next) ==
  IF action_sequence # None
  THEN [action |-> action_sequence[1][1],
        next_action |-> IF Len(action_sequence[1]) > 1
                        THEN action_sequence[1][2] ELSE action_sequence[1][1],
        is_dropped_cycle |-> Len(action_sequence[1]) <= 1]
  ELSE [action |-> next[1], next_action |-> next[1],
        is_dropped_cycle |-> TRUE]
BufferedActionCached(step_now, action_sequence, next) ==
  IF step_now = 0 /\ next = None
  THEN [action |-> action_sequence[1][1],
        next_action |-> IF Len(action_sequence[1]) > 1
                        THEN action_sequence[1][2] ELSE action_sequence[1][1],
        is_dropped_cycle |-> Len(action_sequence[1]) <= 1]
  ELSE [action |-> next[1],
        next_action |-> IF action_sequence # None /\ Len(action_sequence[1]) > 1
                        THEN action_sequence[1][2] ELSE next[1],
        is_dropped_cycle |->
          ~ (action_sequence # None /\ Len(action_sequence[1]) > 1)]
\* eval_real.py:169-187: the action of this cycle, the action kept for the
\* next cycle, and whether the cycle is a dropped one
BufferedAction(step_now, action_sequence, next) ==
  IF step_now = 0
  THEN [action |-> action_sequence[1][1],
        next_action |-> IF Len(action_sequence[1]) > 1
                        THEN action_sequence[1][2] ELSE action_sequence[1][1],
        is_dropped_cycle |-> Len(action_sequence[1]) <= 1]
  ELSE [action |-> next[1],
        next_action |-> IF action_sequence # None /\ Len(action_sequence[1]) > 1
                        THEN action_sequence[1][2] ELSE next[1],
        is_dropped_cycle |->
          ~ (action_sequence # None /\ Len(action_sequence[1]) > 1)]

\* eval_real.py:214-218: the clamped relative action; the local is bound only
\* when relative_actions_max is given
RelativeAction(action, rel_max) ==
  IF rel_max # None THEN Some(Clamp(action, -rel_max[1], rel_max[1]))
  ELSE None

CommandBad(is_warmup, first_pos, follower_pos, action, rel_max) ==
  IF rel_max # None
  THEN follower_pos + RelativeAction(action, rel_max)[1]
  ELSE action
\* eval_real.py:209-219: the command given to robot.send_action
Command(is_warmup, first_pos, follower_pos, action, rel_max) ==
  IF is_warmup THEN first_pos
  ELSE IF rel_max # None
       THEN follower_pos + RelativeAction(action, rel_max)[1]
       ELSE action

\* eval_real.py:220: what is appended to episodes_data["action"]
RecordedAction(relative_action, realized) == relative_action

CycleEndBad(start_step_time, late) ==
  IF late THEN start_step_time + Period + 1 + Period
  ELSE start_step_time + Period
\* eval_real.py:222-226: the cycle lasts a period when it is in time (the
\* rest of the period is waited for), longer when it is over time
CycleEnd(start_step_time, late) ==
  IF late THEN start_step_time + Period + 1 ELSE start_step_time + Period

\* The state a cycle leaves and what it did, for the history.
Outcome(position, step_after, data, end, pos, sent, reset, waited) ==
  [rpc |-> position, step |-> step_after, data |-> data, now |-> end,
   pos |-> pos, sent |-> sent, reset |-> reset, waited |-> waited]

\* eval_real.py:234-235
StepLimitReached(step_after, limit) == step_after >= limit

\* eval_real.py:237
LastDone(data) ==
  Len(data.next_done) > 0 /\ data.next_done[Len(data.next_done)]

\* eval_real.py:69-238: one cycle of the control loop. The clock decides
\* whether the cycle is over time, the wrapper which sequence it has in time,
\* the digital twin whether the quit signal is set, the user whether 'q' is
\* pressed in the visualization window.
Cycle ==
  /\ rpc = "cycle"
  /\ \E late \in BOOLEAN, quit \in BOOLEAN, key_q \in BOOLEAN,
        shape \in SequenceShapes(TimeoutGiven(hw_step)) :
       /\ late => n_late < MaxLateCycles
       /\ key_q => visualize
       /\ LET start_step_time == now
              is_warmup == IsWarmup(start_step_time, warmup_s)
              follower_pos == robot_pos
              recorded == IF is_warmup THEN episodes_data
                          ELSE Recorded(episodes_data, hw_step,
                                        start_step_time, follower_pos)
              first_pos == IF first_follower_pos = None
                           THEN Some(follower_pos) ELSE first_follower_pos
              action_sequence ==
                IF shape = 0 THEN None
                ELSE Some(PolicySequence(n_requests + 1, shape))
              buf == BufferedAction(hw_step, action_sequence, next_action)
              relative_action ==
                RelativeAction(buf.action, relative_actions_max)
              command == Command(is_warmup, first_pos[1], follower_pos,
                                 buf.action, relative_actions_max)
              realized == RobotSend(command)
              end == CycleEnd(start_step_time, late)
              step_after == IF is_warmup THEN hw_step ELSE hw_step + 1
              with_action ==
                IF is_warmup THEN recorded
                ELSE [recorded EXCEPT !.action =
                        Append(@, RecordedAction(relative_action,
                                                 realized)[1])]
              limit_done ==
                [with_action EXCEPT
                   !.next_done = [@ EXCEPT ![Len(@)] = TRUE]]
              out ==
                IF key_q
                THEN \* line 206: return
                     Outcome("returned_q", hw_step, recorded, now, robot_pos,
                             <<>>, FALSE, FALSE)
                ELSE IF ~ is_warmup /\ relative_action = None
                THEN \* line 220: relative_action is not bound
                     Outcome("NameError", hw_step, recorded, now, realized,
                             <<command>>, FALSE, FALSE)
                ELSE IF quit
                THEN \* line 229: break
                     Outcome("post", hw_step, with_action, end, realized,
                             <<command>>, is_warmup, ~ late)
                ELSE IF max_steps = None
                THEN \* line 234: int >= None
                     Outcome("TypeError", step_after, with_action, end,
                             realized, <<command>>, is_warmup, ~ late)
                ELSE IF /\ StepLimitReached(step_after, max_steps[1])
                        /\ with_action.next_done = <<>>
                THEN \* line 235: [-1] of an empty list
                     Outcome("IndexError", step_after, with_action, end,
                             realized, <<command>>, is_warmup, ~ late)
                ELSE LET data == IF StepLimitReached(step_after, max_steps[1])
                                 THEN limit_done ELSE with_action
                     IN Outcome(IF LastDone(data) THEN "post" ELSE "cycle",
                                step_after, data, end, realized,
                                <<command>>, is_warmup, ~ late)
          IN /\ rpc' = out.rpc
             /\ hw_step' = out.step
             /\ episodes_data' = out.data
             /\ now' = out.now
             /\ robot_pos' = out.pos
             /\ next_action' = Some(buf.next_action)
             /\ first_follower_pos' = first_pos
             /\ n_requests' = n_requests + 1
             /\ n_late' = IF late THEN n_late + 1 ELSE n_late
             /\ log' = Append(log,
                   [is_warmup |-> is_warmup,
                    step |-> hw_step,
                    start_step_time |-> start_step_time,
                    follower_pos |-> follower_pos,
                    action_sequence |-> action_sequence,
                    previous_next_action |-> next_action,
                    action |-> buf.action,
                    next_action |-> buf.next_action,
                    is_dropped_cycle |-> buf.is_dropped_cycle,
                    over_time |-> late,
                    quit |-> quit /\ ~ key_q,
                    sent |-> out.sent,
                    realized |-> realized,
                    wrapper_reset |-> out.reset,
                    waited |-> out.waited,
                    step_after |-> out.step,
                    data_before |-> episodes_data,
                    data_after |-> out.data,
                    rpc |-> out.rpc])
  /\ UNCHANGED <<warmup_s, relative_actions_max, max_steps, visualize,
                 wrapper_closed, twin_closed>>
  /\ UNCHANGED <<sim_vars, cli_vars>>

DropFirstFrameBad(data) ==
  [index |-> Tail(data.index),
   episode_index |-> Tail(data.episode_index),
   timestamp |-> Tail(data.timestamp),
   frame_index |-> Tail(data.frame_index),
   observation_state |-> Tail(data.observation_state),
   action |-> Tail(data.action),
   next_reward |-> Tail(data.next_reward),
   next_success |-> Tail(data.next_success),
   next_done |-> Tail(data.next_done)]
\* episodes_data[k][1:] for every key, then frame_index -= 1, index -= 1
DropFirstFrame(data) ==
  [index |-> [i \in 1..(Len(data.index) - 1) |-> data.index[i + 1] - 1],
   episode_index |-> Tail(data.episode_index),
   timestamp |-> Tail(data.timestamp),
   frame_index |->
     [i \in 1..(Len(data.frame_index) - 1) |-> data.frame_index[i + 1] - 1],
   observation_state |-> Tail(data.observation_state),
   action |-> Tail(data.action),
   next_reward |-> Tail(data.next_reward),
   next_success |-> Tail(data.next_success),
   next_done |-> Tail(data.next_done)]

PadNextBad(data) == data
\* eval_real.py:240-242: every next.* list is padded with its last item
PadNext(data) ==
  [data EXCEPT !.next_reward = Append(@, @[Len(@)]),
               !.next_success = Append(@, @[Len(@)]),
               !.next_done = Append(@, @[Len(@)])]

\* eval_real.py:240-261: after the loop. With no next.done recorded, the
\* padding (line 242) or the assignment of line 247 indexes an empty list.
PostProcess ==
  /\ rpc = "post"
  /\ IF episodes_data.next_done = <<>>
     THEN /\ rpc' = "IndexError"
          /\ UNCHANGED <<episodes_data, wrapper_closed, twin_closed>>
     ELSE LET padded == PadNext(episodes_data)
              forced == [padded EXCEPT
                           !.next_done = [@ EXCEPT ![Len(@)] = TRUE]]
          IN /\ episodes_data' = DropFirstFrame(forced)
             /\ wrapper_closed' = TRUE
             /\ twin_closed' = TRUE
             /\ rpc' = "returned"
  /\ UNCHANGED <<warmup_s, relative_actions_max, max_steps, visualize,
                 hw_step, next_action, first_follower_pos, now, robot_pos,
                 n_requests, n_late, log>>
  /\ UNCHANGED <<sim_vars, cli_vars>>

\* The robot stands at rest somewhere before the rollout.
StartPositions == {0, Goal - Tolerance - 1}

\* eval_real.py:34-68: the state of rollout when it enters the loop, for the
\* arguments warmup_s, relative_actions_max, max_steps and visualize.
RealInit ==
  /\ warmup_s \in {0, MaxWarmupS}
  /\ relative_actions_max \in {None, Some(MaxRelative)}
  /\ max_steps \in {None} \cup {Some(k) : k \in 1..MaxSteps}
  /\ visualize \in BOOLEAN
  /\ rpc = "cycle"
  /\ hw_step = 0
  /\ episodes_data = EmptyEpisodes
  /\ next_action = None
  /\ first_follower_pos = None
  /\ now = 1
  /\ robot_pos \in StartPositions
  /\ n_requests = 0
  /\ wrapper_closed = FALSE
  /\ twin_closed = FALSE
  /\ n_late = 0
  /\ log = <<>>
  /\ SimIdle
  /\ MainIdle
  /\ ConfigIdle

RealNext == Cycle \/ PostProcess

RealSpec == RealInit /\ [][RealNext]_vars

\* ------------------------------------------------------------ command line
\* The script eval.py: the arguments, the resolution of the pretrained
\* policy, main. The Hub and the file system are what the script finds:
\* hub is the outcome of snapshot_download for the identifier given, fs the
\* kind of the snapshot path it returns and of the identifier taken as a
\* local path.

\* Path.is_dir()
PathIsDirBad(kind) == TRUE
PathIsDir(kind) == kind = "dir"

\* Path.exists()
PathExists(kind) == kind # "missing"

\* The exceptions of snapshot_download that are caught (eval.py:522)
CaughtHubErrors == {"HFValidationError", "RepositoryNotFoundError"}

\* eval.py:519-539: the path returned, or the exception raised
GetPretrainedPolicyPath(outcome, files) ==
  IF outcome \notin {"snapshot"} \cup CaughtHubErrors
  THEN [raised |-> Some(outcome), path |-> None]
  ELSE LET pretrained == IF outcome = "snapshot" THEN "snapshot" ELSE "local"
       IN IF ~ PathIsDir(files[pretrained]) \/ ~ PathExists(files[pretrained])
          THEN [raised |-> Some("ValueError: not a directory"), path |-> None]
          ELSE [raised |-> None, path |-> Some(pretrained)]

\* eval.py:545-591: the arguments are parsed (the group of -p and --config
\* is mutually exclusive and required), the pretrained policy is resolved
\* when -p is given, and main is called.
ParseArgs ==
  /\ main_pc = "args"
  /\ IF (args.pretrained_policy_name_or_path = None) = (args.config = None)
     THEN /\ main_pc' = "SystemExit"
          /\ UNCHANGED pretrained_policy_path
     ELSE IF args.pretrained_policy_name_or_path = None
     THEN /\ main_pc' = "main"
          /\ UNCHANGED pretrained_policy_path
     ELSE LET got == GetPretrainedPolicyPath(hub, fs)
          IN IF got.raised # None
             THEN /\ main_pc' = got.raised[1]
                  /\ UNCHANGED pretrained_policy_path
             ELSE /\ main_pc' = "main"
                  /\ pretrained_policy_path' = got.path
  /\ UNCHANGED <<args, hub, fs, hydra_cfg, created, saved, env_closed>>
  /\ UNCHANGED <<sim_vars, real_vars, config_vars>>

\* main's hydra_cfg_path, as the script passes it (eval.py:581, 587-591)
HydraCfgPath == IF pretrained_policy_path = None THEN args.config ELSE None

MainBatchCheckBad(batch_size, n) == batch_size >= n
\* eval.py:464
MainBatchCheck(batch_size, n) == batch_size > n

\* eval.py:458-472: the assertion on the two paths, the configuration, and
\* the test of the batch size.
MainCheck ==
  /\ main_pc = "main"
  /\ main_pc' =
       IF (pretrained_policy_path = None) = (HydraCfgPath = None)
       THEN "AssertionError"
       ELSE IF MainBatchCheck(hydra_cfg.batch_size, hydra_cfg.n_episodes)
       THEN "ValueError: batch size"
       ELSE "make"
  /\ UNCHANGED <<args, hub, fs, hydra_cfg, pretrained_policy_path, created,
                 saved, env_closed>>
  /\ UNCHANGED <<sim_vars, real_vars, config_vars>>

\* eval.py:474-507: the environment (of batch_size elements) and the policy
\* are made, the dataset too when the policy starts from a configuration,
\* and eval_policy is called.
MainMake ==
  /\ main_pc = "make"
  /\ created' = IF HydraCfgPath = None
                THEN <<"env", "policy">>
                ELSE <<"env", "dataset", "policy">>
  /\ main_pc' = "eval"
  /\ pc' = "batch"
  /\ n_episodes' = hydra_cfg.n_episodes
  /\ num_envs' = hydra_cfg.batch_size
  /\ start_seed' = Some(hydra_cfg.seed)
  /\ return_episode_data' = FALSE
  /\ max_episodes_rendered' = MainEpisodesRendered
  /\ n_batches' = NBatches(hydra_cfg.n_episodes, hydra_cfg.batch_size)
  /\ UNCHANGED <<batch_ix, sum_rewards, max_rewards, eval_successes,
                 all_seeds, rollout_data, done_indices, this_episode_data,
                 episode_data, info>>
  /\ UNCHANGED <<ep_frames, n_episodes_rendered, threads, video_paths,
                 n_joined>>
  /\ UNCHANGED <<rollout_vars, collab_vars, hist_vars>>
  /\ UNCHANGED <<args, hub, fs, hydra_cfg, pretrained_policy_path, saved,
                 env_closed>>
  /\ UNCHANGED <<real_vars, config_vars>>

\* eval.py:508-516: eval_policy has returned (or raised, and main with it);
\* the info is saved and the environment closed.
MainFinish ==
  /\ main_pc = "eval"
  /\ pc \in {"returned", "ValueError", "AssertionError", "TypeError"}
  /\ IF pc = "returned"
     THEN /\ saved' = info
          /\ env_closed' = TRUE
          /\ main_pc' = "done"
     ELSE /\ main_pc' = pc
          /\ UNCHANGED <<saved, env_closed>>
  /\ UNCHANGED <<args, hub, fs, hydra_cfg, pretrained_policy_path, created>>
  /\ UNCHANGED <<sim_vars, real_vars, config_vars>>

\* What the script may be given and may find.
MainInit ==
  /\ args \in [pretrained_policy_name_or_path :
                 {None, Some("lerobot/diffusion_pusht")},
               config : {None, Some("config.yaml")}]
  /\ hub \in {"snapshot", "ConnectionError"} \cup CaughtHubErrors
  /\ fs \in [snapshot : {"dir", "file", "missing"},
             local : {"dir", "file", "missing"}]
  /\ hydra_cfg \in [batch_size : 1..MaxNumEnvs,
                    n_episodes : 1..MaxEpisodes,
                    seed : {0, MaxStartSeed}]
  /\ main_pc = "args"
  /\ pretrained_policy_path = None
  /\ created = <<>>
  /\ saved = None
  /\ env_closed = FALSE
  /\ ConfigIdle
  /\ SimIdle
  /\ RealIdle

MainNext ==
  \/ ParseArgs
  \/ MainCheck
  \/ MainMake
  \/ MainFinish
  \/ Next
  \/ \E k \in 1..MainEpisodesRendered : WriteVideo(k)
  \/ JoinThread

MainSpec == MainInit /\ [][MainNext]_vars

\* ------------------------------------------------------- DiffusionConfig
\* The names a configuration may give to the vision backbone.
Backbones ==
  {Resnet \o <<"1", "8">>, Resnet, <<"r", "e", "s">>,
   <<"v", "g", "g", "1", "6">>, <<"x">> \o Resnet}

\* The keys of the image inputs input_shapes may have.
ImageKeys == {ObservationImage, ObservationImagesTop}

\* Shapes [channels, height, width]
ImageShapes == {<<3, h, w>> : h, w \in 1..MaxImageSize}

\* input_shapes: the state and any of the image inputs
InputShapes ==
  {images @@ (ObservationState :> <<2>>) :
     images \in UNION {[keys -> ImageShapes] : keys \in SUBSET ImageKeys}}

\* crop_shape: None or (H, W)
CropShapes ==
  {None} \cup {Some(<<h, w>>) : h, w \in 1..(MaxImageSize + 1)}

CropExceedsBad(crop_shape, shape) ==
  crop_shape[1] >= shape[2] \/ crop_shape[2] >= shape[3]
\* configuration_diffusion.py:155-156
CropExceeds(crop_shape, shape) ==
  crop_shape[1] > shape[2] \/ crop_shape[2] > shape[3]

\* configuration_diffusion.py:145-173: the checks in order; the result is
\* "ok" or the ValueError of the first check that fails.
PostInit(cfg) ==
  LET image_keys == {k \in DOMAIN cfg.input_shapes :
                       StartsWith(k, ObservationImage)}
  IN IF ~ StartsWith(cfg.vision_backbone, Resnet)
     THEN "ValueError: vision_backbone"
     ELSE IF /\ cfg.crop_shape # None
             /\ \E image_key \in image_keys :
                  CropExceeds(cfg.crop_shape[1], cfg.input_shapes[image_key])
     THEN "ValueError: crop_shape"
     ELSE IF cfg.prediction_type \notin {"epsilon", "sample"}
     THEN "ValueError: prediction_type"
     ELSE IF cfg.noise_scheduler_type \notin {"DDPM", "DDIM"}
     THEN "ValueError: noise_scheduler_type"
     ELSE "ok"

\* DiffusionConfig(...): the dataclass sets the fields and runs __post_init__
Construct ==
  /\ constructed = "new"
  /\ constructed' = PostInit(config)
  /\ UNCHANGED config
  /\ UNCHANGED <<sim_vars, real_vars, main_vars>>

ConfigInit ==
  /\ config \in [vision_backbone : Backbones,
                 crop_shape : CropShapes,
                 input_shapes : InputShapes,
                 noise_scheduler_type : {"DDPM", "DDIM", "EDM"},
                 prediction_type : {"epsilon", "sample", "v_prediction"}]
  /\ constructed = "new"
  /\ MainIdle
  /\ SimIdle
  /\ RealIdle

ConfigNext == Construct

ConfigSpec == ConfigInit /\ [][ConfigNext]_vars

\* ------------------------------------------------------------------ claims
\* The data rollout returned, when there is one.
HasRolloutData == rollout_data # None

\* The metrics of the batch that rollout_data holds have been appended.
MetricsDone ==
  /\ HasRolloutData
  /\ pc \in {"batch", "loop", "returned", "ValueError"}

\* The position in sum_rewards, max_rewards and eval_successes of element b
\* of the batch that rollout_data holds.
EpisodePos(b) == (batch_ix - 1) * num_envs + b

\* The 1-based position of the first True of a cumulative done sequence.
FirstDonePos(d) == CHOOSE t \in 1..Len(d) : d[t] /\ \A u \in 1..(t - 1) : ~ d[u]

\* C1: in the "done" array of the rollout, step by step and as returned, once
\* an element's cumulative done flag is True at a step it is True at every
\* later step, whatever the environment reports afterwards.
C1_DoneSticky ==
  /\ \A t \in 1..Len(all_dones) : \A b \in DOMAIN all_dones[t] :
       all_dones[t][b] => \A u \in t..Len(all_dones) : all_dones[u][b]
  /\ HasRolloutData =>
       \A b \in DOMAIN rollout_data[1].done :
         \A t \in 1..Len(rollout_data[1].done[b]) :
           rollout_data[1].done[b][t] =>
             \A u \in t..Len(rollout_data[1].done[b]) :
               rollout_data[1].done[b][u]

\* An element was done at a step, the environment reported it neither
\* terminated nor truncated on a later step (its reward there is the plain
\* step penalty), and the returned flag is still True on that later step.
C1_Witness ==
  /\ HasRolloutData
  /\ \E b \in DOMAIN rollout_data[1].done :
       \E t \in 1..Len(rollout_data[1].done[b]) :
         \E u \in (t + 1)..Len(rollout_data[1].done[b]) :
           /\ rollout_data[1].done[b][t]
           /\ rollout_data[1].reward[b][u] = EnvReward(FALSE, FALSE)
           /\ rollout_data[1].done[b][u]

\* C2: the sum_reward of every episode is the sum of the raw rewards of the
\* steps up to and including its first-done step.
C2_SumReward ==
  MetricsDone =>
    \A b \in Elems(num_envs) :
      sum_rewards[EpisodePos(b)] =
        SeqSum(SubSeq(rollout_data[1].reward[b], 1,
                      FirstDonePos(rollout_data[1].done[b])))

\* C3: the max_reward of every episode is the maximum of the raw rewards of
\* the steps up to and including its first-done step.
C3_MaxReward ==
  MetricsDone =>
    \A b \in Elems(num_envs) :
      max_rewards[EpisodePos(b)] =
        SeqMax(SubSeq(rollout_data[1].reward[b], 1,
                      FirstDonePos(rollout_data[1].done[b])))

\* C4: an episode is reported successful exactly when its success flag is
\* True at some step up to and including its first-done step.
C4_Success ==
  MetricsDone =>
    \A b \in Elems(num_envs) :
      eval_successes[EpisodePos(b)] =
        (\E t \in 1..FirstDonePos(rollout_data[1].done[b]) :
           rollout_data[1].success[b][t])

\* C5: when eval_policy returns, per_episode holds exactly the first
\* n_episodes episodes in production order (batch by batch, element by
\* element) and the aggregated statistics are taken over these alone.
C5_FirstEpisodes ==
  pc = "returned" =>
    /\ Len(info[1].per_episode) = n_episodes
    /\ \A i \in 1..n_episodes :
         /\ produced[i].batch = (i - 1) \div num_envs
         /\ produced[i].element = ((i - 1) % num_envs) + 1
         /\ info[1].per_episode[i].episode_ix = i - 1
         /\ info[1].per_episode[i].sum_reward = produced[i].sum_reward
         /\ info[1].per_episode[i].max_reward = produced[i].max_reward
         /\ info[1].per_episode[i].success = produced[i].success
    /\ info[1].aggregated.avg_sum_reward =
         <<SeqSum([i \in 1..n_episodes |-> produced[i].sum_reward]),
           n_episodes>>
    /\ info[1].aggregated.avg_max_reward =
         <<SeqSum([i \in 1..n_episodes |-> produced[i].max_reward]),
           n_episodes>>
    /\ info[1].aggregated.pc_success =
         <<100 * Cardinality({i \in 1..n_episodes : produced[i].success}),
           n_episodes>>

\* eval_policy returned after several batches, the last of which produced
\* more episodes than were asked for, and a discarded episode would have
\* changed the statistics.
C5_Witness ==
  /\ pc = "returned"
  /\ n_batches >= 2
  /\ Len(produced) > n_episodes
  /\ produced[Len(produced)].sum_reward # 0
  /\ produced[Len(produced)].success

\* Smallest k with k * e >= n.
CeilDiv(n, e) == CHOOSE k \in 0..n : k * e >= n /\ (k = 0 \/ (k - 1) * e < n)

\* C6: when eval_policy is over, it has run the batched rollout exactly
\* ceil(n_episodes / num_envs) times, and never more than that on the way.
C6_RolloutCount ==
  /\ n_rollouts <= CeilDiv(n_episodes, num_envs)
  /\ pc \in {"returned", "ValueError"} =>
       n_rollouts = CeilDiv(n_episodes, num_envs)

\* eval_policy returned after a last batch that was not full.
C6_Witness ==
  /\ pc = "returned"
  /\ n_episodes % num_envs # 0
  /\ n_rollouts = 2

\* The episode data compiled so far, and that of the last compiled batch.
HasEpisodeData == episode_data # None
HasThisEpisodeData == this_episode_data # None /\ pc # "metrics"

\* C7: compiling episode data over several batches never fails: the two
\* continuity assertions hold and the concatenation is made; over it the
\* global index starts at 0 and grows by exactly 1 from each frame to the
\* next, episode_index never decreases, and at each batch boundary it is
\* exactly one greater than the previous batch's last.
C7_IndexContinuity ==
  /\ pc \notin {"AssertionError", "TypeError"}
  /\ HasEpisodeData =>
       LET ed == episode_data[1]
       IN /\ ed.index[1] = 0
          /\ Len(ed.episode_index) = Len(ed.index)
          /\ \A k \in 1..(Len(ed.index) - 1) :
               /\ ed.index[k + 1] = ed.index[k] + 1
               /\ ed.episode_index[k + 1] \in
                    {ed.episode_index[k], ed.episode_index[k] + 1}
          /\ \A j \in 1..Len(boundaries) :
               ed.episode_index[boundaries[j] + 1] =
                 ed.episode_index[boundaries[j]] + 1

\* The position of the last frame of each episode of the last compiled batch.
LastFrames(d) ==
  {k \in 2..Len(d.episode_index) :
     /\ d.episode_index[k - 1] = d.episode_index[k]
     /\ (k = Len(d.episode_index) \/ d.episode_index[k + 1] # d.episode_index[k])}

\* The batch element of the episode that frame k of the last compiled batch
\* belongs to.
ElementOf(d, k) == d.episode_index[k] - d.episode_index[1] + 1

\* C8, as stated: the last two frames of every compiled episode are identical
\* in all fields, observation and global index included, except timestamp
\* (advanced by 1/fps) and frame_index (incremented by 1).
C8_LastTwoFramesIdentical ==
  HasThisEpisodeData =>
    LET d == this_episode_data[1]
    IN \A k \in LastFrames(d) :
         /\ d.action[k] = d.action[k - 1]
         /\ d.episode_index[k] = d.episode_index[k - 1]
         /\ d.next_done[k] = d.next_done[k - 1]
         /\ d.next_success[k] = d.next_success[k - 1]
         /\ d.next_reward[k] = d.next_reward[k - 1]
         /\ d.observation[k] = d.observation[k - 1]
         /\ d.index[k] = d.index[k - 1]
         /\ d.timestamp[k] = FracAdd(d.timestamp[k - 1], <<1, Fps>>)
         /\ d.frame_index[k] = d.frame_index[k - 1] + 1

\* C8, amended: the last two frames of every compiled episode are identical
\* in action, episode_index, next.done, next.success and next.reward;
\* timestamp is advanced by 1/fps, frame_index and the global index by 1; the
\* observation of the last frame is the one the environment returned on the
\* episode's first-done step, not a copy of the previous frame's.
C8_CopyPaddedFrame ==
  HasThisEpisodeData =>
    LET d == this_episode_data[1]
        rd == rollout_data[1]
    IN /\ Cardinality(LastFrames(d)) = num_envs
       /\ \A k \in LastFrames(d) :
            /\ d.action[k] = d.action[k - 1]
            /\ d.episode_index[k] = d.episode_index[k - 1]
            /\ d.next_done[k] = d.next_done[k - 1]
            /\ d.next_success[k] = d.next_success[k - 1]
            /\ d.next_reward[k] = d.next_reward[k - 1]
            /\ d.timestamp[k] = FracAdd(d.timestamp[k - 1], <<1, Fps>>)
            /\ d.frame_index[k] = d.frame_index[k - 1] + 1
            /\ d.index[k] = d.index[k - 1] + 1
            /\ d.observation[k] =
                 rd.observation[1][ElementOf(d, k)]
                   [FirstDonePos(rd.done[ElementOf(d, k)]) + 1]
            /\ d.action[k] =
                 rd.action[ElementOf(d, k)]
                   [FirstDonePos(rd.done[ElementOf(d, k)])]

\* A batch of two episodes has been compiled, one of them of three steps,
\* whose last frame repeats the third action (not the first) and carries a
\* new observation.
C8_Witness ==
  /\ HasThisEpisodeData
  /\ num_envs = 2
  /\ \E k \in LastFrames(this_episode_data[1]) :
       /\ this_episode_data[1].frame_index[k] = 3
       /\ this_episode_data[1].action[k] # this_episode_data[1].action[1]
       /\ this_episode_data[1].observation[k] #
            this_episode_data[1].observation[k - 1]

\* C9: with return_observations, the observation history has exactly one more
\* time entry than the action history, the action, reward, success and done
\* arrays have the same time length, and the extra entry is the observation
\* returned by the last environment step.
C9_ExtraObservation ==
  /\ (pc = "loop" /\ return_episode_data) =>
       Len(all_observations) = Len(all_actions)
  /\ (HasRolloutData /\ pc \in {"metrics", "batch", "returned", "ValueError"}) =>
       LET rd == rollout_data[1]
       IN \A b \in Elems(num_envs) :
            /\ Len(rd.reward[b]) = Len(rd.action[b])
            /\ Len(rd.success[b]) = Len(rd.action[b])
            /\ Len(rd.done[b]) = Len(rd.action[b])
            /\ Len(rd.action[b]) = step
            /\ return_episode_data =>
                 /\ Len(rd.observation[1][b]) = Len(rd.action[b]) + 1
                 /\ rd.observation[1][b][Len(rd.action[b]) + 1] =
                      observation[b]
                 /\ observation[b] =
                      EnvObservation(env_steps[b], env_elapsed[b])

\* A rollout of three steps with observations has returned.
C9_Witness ==
  /\ HasRolloutData
  /\ pc = "metrics"
  /\ return_episode_data
  /\ Len(rollout_data[1].action[1]) = 3
  /\ Len(rollout_data[1].observation[1][1]) = 4

\* The greatest of a non-empty set of integers.
SetMax(S) == CHOOSE x \in S : \A y \in S : y <= x

\* What rollout returns is at least one step long, every element is done in
\* it, it is as long as 1 + the largest first-done index of the batch, no
\* step before the last has every element done, and every step holds an
\* action for every element of the batch.
C10_Length ==
  HasRolloutData =>
    LET rd == rollout_data[1]
        n_steps == Len(rd.done[1])
    IN /\ n_steps >= 1
       /\ \A b \in Elems(num_envs) : \E t \in 1..n_steps : rd.done[b][t]
       /\ n_steps = SetMax({FirstDonePos(rd.done[b]) : b \in Elems(num_envs)})
       /\ \A t \in 1..(n_steps - 1) : \E b \in Elems(num_envs) : ~ rd.done[b][t]
       /\ \A b \in Elems(num_envs) : Len(rd.action[b]) = n_steps

\* C10: the rollout loop runs at least one step, stops at the first step
\* after which every element is done (so it returns 1 + the largest
\* first-done index steps), steps the whole batch while one element is
\* active, and terminates since every environment ends its episode.
C10_LoopStops ==
  /\ [](C10_Length)
  /\ [][step' = step + 1 =>
          /\ \E b \in Elems(num_envs) : ~ done[b]
          /\ \A b \in Elems(num_envs) : env_steps'[b] = env_steps[b] + 1
          /\ DOMAIN all_actions'[step'] = Elems(num_envs)]_vars
  /\ (pc = "loop") ~> (pc = "metrics")

\* One element was done after the first step and the batch went on for two
\* more steps until the other was done.
C10_Witness ==
  /\ HasRolloutData
  /\ num_envs = 2
  /\ \E b \in Elems(num_envs) : FirstDonePos(rollout_data[1].done[b]) = 1
  /\ Len(rollout_data[1].done[1]) = 3

\* All batches have been rolled out and handled.
BatchesOver ==
  /\ batch_ix = n_batches
  /\ pc \in {"batch", "returned", "ValueError"}

\* C11: when eval_policy returns normally every writer thread it started has
\* been joined and has finished, and no thread is joined before all batches
\* have been rolled out.
C11_AllJoined ==
  /\ [](pc = "returned" =>
          /\ n_joined = Len(threads)
          /\ \A k \in 1..Len(threads) : threads[k].status = "finished")
  /\ [][n_joined' # n_joined =>
          /\ n_joined' = n_joined + 1
          /\ threads[n_joined'].status = "finished"
          /\ batch_ix = n_batches
          /\ n_rollouts = n_batches
          /\ pc = "batch"]_vars

\* eval_policy returned after joining two writers started in different
\* batches.
C11_Witness ==
  /\ pc = "returned"
  /\ n_joined = 2
  /\ threads[1].batch # threads[2].batch

\* C12: the writers started are one per episode, in production order, writer
\* k with the path eval_episode_k.mp4; they are never more than
\* max_episodes_rendered, and once all batches are over they are exactly
\* min(max_episodes_rendered, n_batches * num_envs), which counts the
\* episodes of the last batch beyond n_episodes.
C12_WritersStarted ==
  /\ Len(threads) = n_episodes_rendered
  /\ Len(video_paths) = n_episodes_rendered
  /\ n_episodes_rendered <= max_episodes_rendered
  /\ \A k \in 1..Len(threads) :
       /\ threads[k].path = k - 1
       /\ video_paths[k] = k - 1
       /\ threads[k].batch = (k - 1) \div num_envs
       /\ threads[k].element = ((k - 1) % num_envs) + 1
  /\ BatchesOver =>
       Len(threads) = Min(max_episodes_rendered, n_batches * num_envs)

\* One episode was asked for, the batch produced two and both were rendered.
C12_Witness ==
  /\ pc = "returned"
  /\ n_episodes = 1
  /\ Len(threads) = 2
  /\ threads[2].path = 1

\* The frames rendered during the batch that was handled last are at hand.
HasFrames ==
  /\ done_indices # None
  /\ pc \in {"batch", "returned", "ValueError"}

\* C13: the frames handed to the writer of an episode end with the frame
\* rendered after the step on which the episode first became done (frame
\* done index + 1, counting the frame rendered after reset as frame 0), and
\* they are the frames rendered up to there, in order.
C13_LastFrame ==
  HasFrames =>
    \A k \in 1..Len(threads) :
      threads[k].batch = batch_ix - 1 =>
        LET b == threads[k].element
            frames == threads[k].frames
        IN /\ Len(frames) = done_indices[b] + 2
           /\ \A j \in 1..Len(frames) : frames[j] = ep_frames[j][b]
           /\ frames[Len(frames)] =
                EnvRender(done_indices[b] + 1,
                          IF rollout_data[1].done[b][done_indices[b] + 1]
                          THEN 0 ELSE done_indices[b] + 1)

\* C14: two runs of the batched rollout with the same seeds return the same
\* action, reward, success and done arrays, whatever the policy and the
\* environments went through before.
C14_SameSeedsSameData ==
  \A i \in 1..Len(rollouts) : \A j \in 1..Len(rollouts) :
    (/\ rollouts[i].seeds = rollouts[j].seeds
     /\ \A b \in DOMAIN rollouts[i].seeds : rollouts[i].seeds[b] # None)
    => rollouts[i] = rollouts[j]

\* The second evaluation has rolled out its second batch, with the seeds of
\* the second batch of the first evaluation, on a policy that had actions
\* left in its buffer when the evaluation began.
C14_Witness ==
  /\ run = 2
  /\ pc = "metrics"
  /\ Len(rollouts) = 4
  /\ rollouts[2].seeds = rollouts[4].seeds
  /\ rollouts[1].seeds # rollouts[2].seeds
  /\ policy_queue # <<>>

\* C15: with start_seed given, the episode at global position i (batch
\* i div num_envs, element i mod num_envs) runs in an environment seeded with
\* start_seed + i, and per_episode[i].seed reports start_seed + i, for every
\* i < n_episodes.
C15_Seeds ==
  start_seed # None =>
    /\ pc = "loop" =>
         \A b \in Elems(num_envs) :
           /\ env_seed[b] = Some(start_seed[1] + batch_ix * num_envs + (b - 1))
           /\ env_tape[b] = env_seed[b][1]
    /\ \A r \in 1..Len(rollouts) : \A b \in Elems(num_envs) :
         rollouts[r].seeds[b] =
           Some(start_seed[1] + (r - 1) * num_envs + (b - 1))
    /\ pc = "returned" =>
         \A i \in 0..(n_episodes - 1) :
           /\ info[1].per_episode[i + 1].seed = Some(start_seed[1] + i)
           /\ info[1].per_episode[i + 1].episode_ix = i
           /\ rollouts[(i \div num_envs) + 1].seeds[(i % num_envs) + 1] =
                Some(start_seed[1] + i)

\* An evaluation with start_seed = 0 returned after two batches of two.
C15_Witness ==
  /\ pc = "returned"
  /\ start_seed = Some(0)
  /\ num_envs = 2
  /\ n_batches = 2
  /\ info[1].per_episode[3].seed = Some(2)

\* ------------------------------------------------- claims on eval_real.py
\* The cycles of the hardware rollout so far that were not cut short by the
\* 'q' key.
Cycles == {k \in 1..Len(log) : log[k].rpc # "returned_q"}

\* A fresh sequence of more than one action.
MultiStep(action_sequence) ==
  action_sequence # None /\ Len(action_sequence[1]) > 1

\* C16: in a cycle with step > 0 in which the wrapper returns no sequence in
\* time, the policy action applied is the next_action kept by the previous
\* cycle (the second action of that cycle's sequence when it had one), the
\* cycle is flagged as dropped, and the action kept for the next cycle is the
\* action of this cycle again.
C16_Fallback ==
  \A k \in 2..Len(log) :
    (log[k].step > 0 /\ log[k].action_sequence = None) =>
      /\ log[k].action = log[k - 1].next_action
      /\ MultiStep(log[k - 1].action_sequence) =>
           log[k].action = log[k - 1].action_sequence[1][2]
      /\ log[k].is_dropped_cycle
      /\ log[k].next_action = log[k].action
      /\ k \in Cycles =>
           log[k].sent =
             <<log[k].follower_pos +
               Clamp(log[k].action, -relative_actions_max[1],
                     relative_actions_max[1])>>
      /\ k < Len(log) => log[k + 1].action = log[k].action

\* A cycle without a fresh sequence followed a cycle with a multi-step one,
\* and the loop went on to a further cycle.
C16_Witness ==
  \E k \in 2..(Len(log) - 1) :
    /\ log[k].step > 0
    /\ log[k].action_sequence = None
    /\ MultiStep(log[k - 1].action_sequence)
    /\ log[k].sent # <<>>

\* C17: in every cycle after the first ACTIVE one the policy action applied
\* is the next_action decided in the preceding cycle, never an action of the
\* sequence obtained in the cycle itself; and the second action of a fresh
\* multi-step sequence obtained in an ACTIVE cycle is the action of the next
\* cycle.
C17_Lookahead ==
  \A k \in 2..Len(log) :
    /\ log[k].step > 0 =>
         /\ log[k].previous_next_action = Some(log[k - 1].next_action)
         /\ log[k].action = log[k - 1].next_action
         /\ log[k].action_sequence # None =>
              \A i \in 1..Len(log[k].action_sequence[1]) :
                log[k].action # log[k].action_sequence[1][i]
    /\ (~ log[k - 1].is_warmup /\ MultiStep(log[k - 1].action_sequence)) =>
         log[k].action = log[k - 1].action_sequence[1][2]

\* Two cycles in a row after the first ACTIVE one obtained a fresh
\* multi-step sequence.
C17_Witness ==
  \E k \in 2..Len(log) :
    /\ log[k - 1].step > 0
    /\ MultiStep(log[k - 1].action_sequence)
    /\ MultiStep(log[k].action_sequence)
    /\ log[k].sent # <<>>

\* C18: a warmup cycle (one that reaches the command, not cut short by the
\* 'q' key) does not advance the step counter, appends nothing to the
\* episode buffer, sends the robot the pose captured on the very first cycle
\* and not the policy's action, and resets the policy wrapper.
C18_Warmup ==
  \A k \in Cycles :
    log[k].is_warmup =>
      /\ log[k].step_after = log[k].step
      /\ log[k].step = 0
      /\ log[k].data_after = log[k].data_before
      /\ log[k].data_after = EmptyEpisodes
      /\ log[k].sent = <<log[1].follower_pos>>
      /\ first_follower_pos = Some(log[1].follower_pos)
      /\ log[k].wrapper_reset

\* A second warmup cycle has held the pose while the policy asked for a
\* motion.
C18_Witness ==
  /\ Len(log) >= 2
  /\ 2 \in Cycles
  /\ log[2].is_warmup
  /\ relative_actions_max # None
  /\ log[2].sent # <<log[2].follower_pos +
                     Clamp(log[2].action, -relative_actions_max[1],
                           relative_actions_max[1])>>

\* The number of ACTIVE cycles so far.
ActiveCycles == Cardinality({k \in Cycles : ~ log[k].is_warmup})

\* No quit signal, no 'q' key and no success so far.
Undisturbed ==
  /\ \A k \in 1..Len(log) : ~ log[k].quit /\ log[k].rpc # "returned_q"
  /\ \A k \in 1..Len(log) :
       \A i \in 1..Len(log[k].data_after.next_success) :
         ~ log[k].data_after.next_success[i]

\* C19: the loop ends only on the quit signal, on the step counter reaching
\* max_steps or on a recorded success; and for every max_steps >= 1, with
\* relative actions, no quit signal and no success, it goes on while fewer
\* than max_steps ACTIVE cycles are made and ends normally after exactly
\* max_steps of them.
C19_Termination ==
  /\ rpc \in {"post", "returned"} =>
       \/ log[Len(log)].quit
       \/ max_steps # None /\ hw_step >= max_steps[1]
       \/ \E i \in 1..Len(log[Len(log)].data_after.next_success) :
            log[Len(log)].data_after.next_success[i]
  /\ (max_steps # None /\ relative_actions_max # None /\ Undisturbed) =>
       /\ rpc \in {"cycle", "post", "returned"}
       /\ rpc = "cycle" => ActiveCycles < max_steps[1]
       /\ rpc \in {"post", "returned"} => ActiveCycles = max_steps[1]

\* C20: every ACTIVE cycle, with relative_actions_max set or None, sends
\* exactly one action to the robot and appends the realized action that
\* send_action returned to the action record; with relative_actions_max set
\* the action sent is the follower position plus the clamped relative action.
C20_RealizedAction ==
  \A k \in Cycles :
    ~ log[k].is_warmup =>
      /\ Len(log[k].sent) = 1
      /\ log[k].rpc # "NameError"
      /\ log[k].data_after.action =
           Append(log[k].data_before.action, log[k].realized)
      /\ relative_actions_max # None =>
           log[k].sent =
             <<log[k].follower_pos +
               Clamp(log[k].action, -relative_actions_max[1],
                     relative_actions_max[1])>>

\* The lengths of the arrays of an episode.
FieldLengths(data) ==
  {Len(data.index), Len(data.episode_index), Len(data.timestamp),
   Len(data.frame_index), Len(data.observation_state), Len(data.action),
   Len(data.next_reward), Len(data.next_success), Len(data.next_done)}

\* The loop has ended by a break (quit signal, step limit or success).
LoopEnded == log # <<>> /\ log[Len(log)].rpc = "post"

\* C21: however the loop ends after at least two ACTIVE cycles (quit signal,
\* step limit, success), the post-processing goes through, and the episode it
\* returns has all its arrays of one length, one less than the number of
\* ACTIVE cycles, with a final next.done of True.
C21_SameLength ==
  /\ (LoopEnded /\ ActiveCycles >= 2) => rpc \in {"post", "returned"}
  /\ rpc = "returned" =>
       /\ FieldLengths(episodes_data) = {ActiveCycles - 1}
       /\ Len(episodes_data.next_done) >= 1
       /\ episodes_data.next_done[Len(episodes_data.next_done)]

C21_Witness ==
  /\ rpc = "returned"
  /\ log[Len(log)].quit
  /\ ActiveCycles = 3
  /\ ~ log[Len(log)].data_after.next_done[2]

\* The ACTIVE cycle that recorded the frame of step s.
ActiveEntry(s) ==
  CHOOSE k \in Cycles : ~ log[k].is_warmup /\ log[k].step = s

\* C22: in the returned episode, frame_index and index are 0, 1, 2, ...; the
\* i-th frame is the one recorded at step i, with the observation, the
\* timestamp and the action of that cycle and the next.* values appended for
\* it in the following cycle (the last frame has the padded copy), as they
\* stood at the end of the loop.
C22_DropFirst ==
  rpc = "returned" =>
    LET n == Len(episodes_data.index)
        pre == log[Len(log)].data_after
    IN /\ episodes_data.index = [i \in 1..n |-> i - 1]
       /\ episodes_data.frame_index = [i \in 1..n |-> i - 1]
       /\ \A i \in 1..n :
            /\ episodes_data.observation_state[i] =
                 log[ActiveEntry(i)].follower_pos
            /\ episodes_data.timestamp[i] =
                 log[ActiveEntry(i)].start_step_time
            /\ episodes_data.action[i] = pre.action[i + 1]
            /\ pre.index[i + 1] = i
            /\ pre.action[i + 1] =
                 log[ActiveEntry(i)].data_after.action[i + 1]
       /\ \A i \in 1..(n - 1) :
            /\ episodes_data.next_reward[i] =
                 RealReward(log[ActiveEntry(i + 1)].follower_pos)
            /\ episodes_data.next_success[i] =
                 RealSuccess(log[ActiveEntry(i + 1)].follower_pos)
            /\ episodes_data.next_done[i] = pre.next_done[i + 1]
       /\ n >= 1 =>
            /\ episodes_data.next_reward[n] = pre.next_reward[n]
            /\ episodes_data.next_success[n] = pre.next_success[n]

C22_Witness ==
  /\ rpc = "returned"
  /\ Len(episodes_data.index) >= 2
  /\ episodes_data.observation_state[1] # episodes_data.observation_state[2]
  /\ episodes_data.action[1] # episodes_data.action[2]

\* The cycle ran to the end of the loop body.
Completed(k) == log[k].rpc \in {"cycle", "post"}

\* C23: every completed cycle sends exactly one command, the first follower
\* position in warmup and the policy action otherwise. An over-time cycle
\* does not wait and the next cycle starts when it ends, one tick past the
\* period (the clock of the model makes a late cycle one tick late); a cycle
\* in time waits for the rest of the period. A dropped cycle keeps its action
\* for the next cycle. A cycle raises only for a reason that has nothing to
\* do with being dropped or over time, and a dropped or over-time cycle with
\* no reason to end the loop is followed by another cycle.
C23_DegradedCycles ==
  \A k \in Cycles :
    /\ Completed(k) =>
         log[k].sent =
           <<Command(log[k].is_warmup, first_follower_pos[1],
                     log[k].follower_pos, log[k].action,
                     relative_actions_max)>>
    /\ (Completed(k) /\ log[k].over_time) =>
         /\ ~ log[k].waited
         /\ k < Len(log) =>
              log[k + 1].start_step_time = log[k].start_step_time + Period + 1
    /\ (Completed(k) /\ ~ log[k].over_time) =>
         /\ log[k].waited
         /\ k < Len(log) =>
              log[k + 1].start_step_time = log[k].start_step_time + Period
    /\ log[k].is_dropped_cycle => log[k].next_action = log[k].action
    /\ log[k].rpc = "NameError" =>
         ~ log[k].is_warmup /\ relative_actions_max = None
    /\ log[k].rpc = "TypeError" => max_steps = None
    /\ log[k].rpc = "IndexError" =>
         /\ max_steps # None
         /\ log[k].step_after >= max_steps[1]
         /\ log[k].data_after.next_done = <<>>
    /\ log[k].rpc \in {"cycle", "post", "NameError", "TypeError",
                       "IndexError"}
    /\ ( /\ log[k].over_time \/ log[k].is_dropped_cycle
         /\ ~ log[k].quit
         /\ log[k].is_warmup \/ relative_actions_max # None
         /\ max_steps # None
         /\ log[k].step_after < max_steps[1]
         /\ ~ LastDone(log[k].data_after) ) => log[k].rpc = "cycle"

C23_Witness ==
  \E j, k \in Cycles :
    /\ j < k /\ k < Len(log)
    /\ log[j].over_time /\ ~ log[j].is_warmup
    /\ log[k].is_dropped_cycle /\ log[k].action_sequence = None
    /\ log[k + 1].action = log[k].action

\* The phase of the loop at the k-th cycle.
Phase(k) == IF log[k].is_warmup THEN "WARMUP" ELSE "ACTIVE"

\* C24: a cycle is a warmup cycle exactly when it starts no later than
\* warmup_s, and no warmup cycle follows an ACTIVE one; episode data changes
\* only in ACTIVE cycles; and once the loop is left, whether by a break, a
\* return or an exception, no command is sent, no cycle is made and the loop
\* is not entered again.
C24_Phases ==
  /\ [](\A k \in 1..Len(log) :
          /\ log[k].is_warmup <=> log[k].start_step_time <= warmup_s
          /\ \A j \in 1..(k - 1) :
               /\ Phase(j) = "ACTIVE" => Phase(k) = "ACTIVE"
               /\ log[j].rpc = "cycle"
          /\ log[k].is_warmup => log[k].data_after = log[k].data_before)
  /\ [][rpc # "cycle" =>
          /\ robot_pos' = robot_pos
          /\ log' = log
          /\ n_requests' = n_requests
          /\ rpc' # "cycle"]_vars

C24_Witness ==
  /\ rpc = "returned"
  /\ \E j, k \in 1..Len(log) :
       /\ j < k /\ k < Len(log)
       /\ Phase(j) = "WARMUP"
       /\ Phase(k) = "ACTIVE"

\* The cycles whose request to the wrapper was made in warmup.
WarmupCycles == {j \in 1..Len(log) : log[j].is_warmup}

\* The action was computed on the request of cycle j (as its first or second
\* future action, the only ones the loop ever takes).
ComputedIn(action, j) == \E i \in 1..2 : action = ActionValue(j, i)

\* C30: a warmup cycle sends the hold pose; the first ACTIVE cycle (step 0)
\* asks the wrapper without a deadline, gets a sequence, and applies the
\* first action of that sequence, which is the one computed on this cycle's
\* own request and not the next_action left by the warmup cycles; and no
\* ACTIVE cycle applies, and sends, an action computed on the request of a
\* warmup cycle.
C30_WarmupActionsUnused ==
  \A k \in Cycles :
    /\ log[k].is_warmup => log[k].sent = <<first_follower_pos[1]>>
    /\ (~ log[k].is_warmup /\ log[k].step = 0) =>
         /\ ~ TimeoutGiven(log[k].step)
         /\ log[k].action_sequence # None
         /\ log[k].action_sequence[1] =
              PolicySequence(k, Len(log[k].action_sequence[1]))
         /\ log[k].action = log[k].action_sequence[1][1]
         /\ log[k].previous_next_action # None =>
              log[k].action # log[k].previous_next_action[1]
    /\ ~ log[k].is_warmup =>
         /\ \A j \in WarmupCycles : ~ ComputedIn(log[k].action, j)
         /\ \E j \in 1..k : ~ log[j].is_warmup /\ ComputedIn(log[k].action, j)
         /\ log[k].sent =
              <<Command(FALSE, first_follower_pos[1], log[k].follower_pos,
                        log[k].action, relative_actions_max)>>

C30_Witness ==
  \E k \in Cycles :
    /\ k >= 2 /\ k < Len(log)
    /\ log[k - 1].is_warmup
    /\ ~ log[k].is_warmup
    /\ log[k].previous_next_action # None
    /\ relative_actions_max # None
    /\ log[k].sent # <<first_follower_pos[1]>>

\* The lengths of the fields of the dictionary of one episode.
EpDictLengths(ep) ==
  {Len(ep.action), Len(ep.episode_index), Len(ep.frame_index),
   Len(ep.timestamp), Len(ep.next_done), Len(ep.next_success),
   Len(ep.next_reward), Len(ep.observation)}

\* The number of frames compiled for the batch elements before b.
FramesBefore(b) == SeqSum([i \in 1..(b - 1) |-> done_indices[i] + 2])

\* C29: for the batch just compiled, every first-done index is one of
\* 0..n_steps-1; every field of the dictionary of an episode has first-done
\* index + 2 entries; every field of the compiled data, the global index
\* included, is as long as the sum of these; and in the compiled data the
\* frames of an episode are numbered 0, 1, ..., with next.done False before
\* the first-done frame and True on that frame and on the padded last one.
C29_CompiledLengths ==
  HasThisEpisodeData =>
    LET d == this_episode_data[1]
        rd == rollout_data[1]
        n_steps == Len(rd.done[1])
        total == FramesBefore(num_envs + 1)
    IN /\ \A b \in 1..num_envs :
            /\ done_indices[b] \in 0..(n_steps - 1)
            /\ done_indices[b] + 1 = FirstDonePos(rd.done[b])
            /\ EpDictLengths(EpDict(rd, done_indices, b, 0, Fps)) =
                 {done_indices[b] + 2}
            /\ \A i \in 1..(done_indices[b] + 2) :
                 /\ d.frame_index[FramesBefore(b) + i] = i - 1
                 /\ d.episode_index[FramesBefore(b) + i] =
                      d.episode_index[1] + (b - 1)
                 /\ d.next_done[FramesBefore(b) + i] =
                      (i >= done_indices[b] + 1)
       /\ EpDictLengths(d) = {total}
       /\ Len(d.index) = total

C29_Witness ==
  /\ HasThisEpisodeData
  /\ num_envs = 2
  /\ done_indices[1] = 0
  /\ done_indices[2] = Len(rollout_data[1].done[1]) - 1
  /\ done_indices[2] >= 2

\* The positions of a call in the calls of the current rollout.
CallsOf(name) == {i \in 1..Len(calls) : calls[i] = name}

\* C25: in every rollout, policy.reset() is called exactly once, and before
\* env.reset and every select_action; the rollout starts with an empty action
\* buffer, and (over the first NActionSteps steps, which one prediction
\* covers) the t-th action of every batch element is the t-th action
\* predicted from the first observation of this rollout, not one left in the
\* buffer by the previous batch.
C25_PolicyResetOnce ==
  pc \in {"loop", "metrics"} =>
    /\ CallsOf("policy.reset") = {1}
    /\ CallsOf("env.reset") = {2}
    /\ \A i \in CallsOf("policy.select_action") : i > 2
    /\ Cardinality(CallsOf("policy.select_action")) = step
    /\ step = 0 => policy_queue = PolicyReset
    /\ \A t \in 1..Min(Len(all_actions), NActionSteps) :
         \A b \in Elems(num_envs) :
           all_actions[t][b] = PredictedAction(EnvObservation(0, 0), t - 1)

C25_Witness ==
  /\ n_rollouts >= 2
  /\ pc = "loop"
  /\ step >= 2
  /\ Len(rollouts) >= 1
  /\ Len(rollouts[1].action[1]) = 1
  /\ policy_queue # <<>>

\* C26: main raises the ValueError of the batch size exactly when
\* eval.batch_size > eval.n_episodes (not when they are equal), and when it
\* does, no environment, dataset or policy has been made and eval_policy has
\* not been entered.
C26_BatchSizeCheck ==
  /\ [](/\ main_pc = "ValueError: batch size" =>
             /\ hydra_cfg.batch_size > hydra_cfg.n_episodes
             /\ created = <<>>
             /\ pc = "idle"
        /\ main_pc \in {"make", "eval", "done"} =>
             hydra_cfg.batch_size <= hydra_cfg.n_episodes
        /\ created # <<>> => hydra_cfg.batch_size <= hydra_cfg.n_episodes)
  /\ [][main_pc = "main" =>
          /\ hydra_cfg.batch_size > hydra_cfg.n_episodes =>
               main_pc' = "ValueError: batch size"
          /\ hydra_cfg.batch_size <= hydra_cfg.n_episodes =>
               main_pc' = "make"]_vars

C26_Witness ==
  /\ main_pc = "ValueError: batch size"
  /\ hydra_cfg.batch_size = hydra_cfg.n_episodes + 1
  /\ created = <<>>

\* The script was given -p alone and has resolved it.
Resolved ==
  /\ main_pc # "args"
  /\ args.pretrained_policy_name_or_path # None
  /\ args.config = None

\* C27: when snapshot_download succeeds the path is the snapshot path; when
\* it raises HFValidationError or RepositoryNotFoundError the path is the
\* identifier taken as a local path; in both cases the ValueError is raised
\* exactly when that path is not an existing directory, and otherwise that
\* path is returned (and main is called with it).
C27_PolicyPath ==
  Resolved =>
    LET candidate == IF hub = "snapshot" THEN "snapshot" ELSE "local"
    IN (hub = "snapshot" \/ hub \in CaughtHubErrors) =>
         IF fs[candidate] = "dir"
         THEN /\ pretrained_policy_path = Some(candidate)
              /\ main_pc # "ValueError: not a directory"
         ELSE /\ pretrained_policy_path = None
              /\ main_pc = "ValueError: not a directory"

C27_Witness ==
  /\ Resolved
  /\ hub = "RepositoryNotFoundError"
  /\ fs.snapshot = "missing"
  /\ pretrained_policy_path = Some("local")
  /\ main_pc = "done"

\* The image inputs of a configuration.
ImageInputs(cfg) ==
  {k \in DOMAIN cfg.input_shapes : StartsWith(k, ObservationImage)}

\* C28: the construction of a DiffusionConfig raises ValueError exactly when
\* the backbone name does not start with "resnet", or crop_shape is set and
\* is higher or wider than some image input (a crop as large as the image is
\* accepted), or prediction_type is not epsilon or sample, or
\* noise_scheduler_type is not DDPM or DDIM.
C28_ConfigValidation ==
  constructed \notin {"idle", "new"} =>
    /\ constructed \in {"ok", "ValueError: vision_backbone",
                        "ValueError: crop_shape",
                        "ValueError: prediction_type",
                        "ValueError: noise_scheduler_type"}
    /\ constructed # "ok" <=>
         \/ ~ StartsWith(config.vision_backbone, Resnet)
         \/ /\ config.crop_shape # None
            /\ \E k \in ImageInputs(config) :
                 ~ /\ config.crop_shape[1][1] <= config.input_shapes[k][2]
                   /\ config.crop_shape[1][2] <= config.input_shapes[k][3]
         \/ config.prediction_type \notin {"epsilon", "sample"}
         \/ config.noise_scheduler_type \notin {"DDPM", "DDIM"}

C28_Witness ==
  /\ constructed = "ok"
  /\ config.crop_shape = Some(<<MaxImageSize, 1>>)
  /\ ImageInputs(config) = ImageKeys
  /\ config.input_shapes[ObservationImage] = <<3, MaxImageSize, 1>>
  /\ config.input_shapes[ObservationImagesTop] = <<3, MaxImageSize, MaxImageSize>>

\* C31: eval_policy without start_seed and with more than one environment
\* does not raise, and the info it returns has exactly n_episodes entries in
\* per_episode, each with seed None.
C31_UnseededReturns ==
  (start_seed = None /\ num_envs > 1) =>
    /\ pc # "ValueError"
    /\ (pc = "returned" /\ info # None) =>
         /\ Len(info[1].per_episode) = n_episodes
         /\ \A i \in 1..Len(info[1].per_episode) :
              info[1].per_episode[i].seed = None

\* C32: with max_steps = None no step limit applies: no cycle raises on the
\* comparison with the limit, and the loop is left only on the quit signal
\* or on a recorded success.
C32_NoStepLimit ==
  max_steps = None =>
    /\ rpc # "TypeError"
    /\ LoopEnded =>
         \/ log[Len(log)].quit
         \/ LastDone(log[Len(log)].data_after)

\* C33: when the quit signal ends the loop, in warmup, in the first ACTIVE
\* cycle or later, the post-processing goes through and the episodes are
\* returned with a final next.done of True.
C33_QuitReturns ==
  (LoopEnded /\ log[Len(log)].quit) =>
    /\ rpc \in {"post", "returned"}
    /\ rpc = "returned" =>
         /\ Len(episodes_data.next_done) >= 1
         /\ episodes_data.next_done[Len(episodes_data.next_done)]

\* C34: whenever rollout has returned, after the loop ended or on the 'q'
\* key, the wrapper's thread and the digital twin are closed and the
\* episodes dictionary is what is returned.
C34_CleanupOnReturn ==
  rpc \in {"returned", "returned_q"} =>
    /\ wrapper_closed
    /\ twin_closed
    /\ rpc = "returned"
====
